---- MODULE Spec2Model ----
(***************************************************************************)
(* Verification model of agent-browser-go: the command protocol            *)
(* (ParseCommand / ExecuteCommand), the daemon's connection handling and   *)
(* shutdown, and the session registry's daemon start-up.                   *)
(***************************************************************************)
EXTENDS Integers, Sequences, FiniteSets, TLC

(***************************************************************************)
(* Bounds of the model.                                                    *)
(***************************************************************************)
MaxConns == 2
MaxFrames == 2
MaxClients == 2
MaxCalls == 2

Conns == 1..MaxConns
Clients == 1..MaxClients
SnapCalls == 1..MaxCalls

\* The goroutines that can call d.Stop(): the handler of each connection
\* (after a close command) and the signal goroutine that Start launches.
SigCaller == MaxConns + 1
StopCallers == Conns \cup {SigCaller}

(***************************************************************************)
(* Command protocol.  A frame is one JSON document; wf says whether        *)
(* json.Unmarshal into BaseCommand succeeds.  A field that is absent from  *)
(* the document decodes to Go's zero value: "" for strings, the empty      *)
(* sequence for []string.  typed says whether the document's fields have   *)
(* the JSON types of the action's command struct.                          *)
(***************************************************************************)
ParseActions ==
  { "launch", "navigate", "click", "type", "fill", "check", "uncheck",
    "upload", "dblclick", "focus", "drag", "frame", "mainframe",
    "getbyrole", "getbytext", "getbylabel", "getbyplaceholder",
    "getbyalttext", "getbytitle", "getbytestid", "nth", "cookies_get",
    "cookies_set", "cookies_clear", "storage_get", "storage_set",
    "storage_clear", "dialog", "pdf", "route", "unroute", "requests",
    "download", "geolocation", "permissions", "viewport", "useragent",
    "device", "back", "forward", "reload", "url", "title", "getattribute",
    "gettext", "isvisible", "isenabled", "ischecked", "count",
    "boundingbox", "press", "screenshot", "snapshot", "evaluate", "wait",
    "waitforurl", "waitforloadstate", "waitforfunction", "scroll",
    "scrollintoview", "select", "multiselect", "hover", "content",
    "setcontent", "close", "tab_new", "tab_list", "tab_switch",
    "tab_close", "window_new", "mousemove", "mousedown", "mouseup",
    "wheel", "keydown", "keyup", "inserttext", "keyboard", "timezone",
    "locale", "credentials", "offline", "headers", "emulatemedia", "tap",
    "highlight", "clear", "selectall", "innertext", "innerhtml",
    "inputvalue", "setvalue", "dispatch", "addscript", "addstyle",
    "addinitscript", "trace_start", "trace_stop", "console", "errors",
    "state_save", "state_load", "bringtofront", "pause",
    "screencast_start", "screencast_stop", "input_mouse",
    "input_keyboard", "input_touch", "clipboard" }

\* The command types that the type switch of ExecuteCommand has a case for,
\* named by the action ParseCommand maps to the type.
ExecActions ==
  { "launch", "navigate", "click", "type", "fill", "check", "uncheck",
    "press", "hover", "focus", "clear", "select", "dblclick",
    "screenshot", "snapshot", "evaluate", "wait", "scroll",
    "scrollintoview", "content", "setcontent", "gettext", "getattribute",
    "innerhtml", "innertext", "inputvalue", "setvalue", "isvisible",
    "isenabled", "ischecked", "count", "boundingbox", "url", "title",
    "back", "forward", "reload", "viewport", "tab_new", "tab_list",
    "tab_switch", "tab_close", "close" }

NoCmd == [kind |-> "", id |-> "", action |-> "", url |-> "",
          selector |-> "", values |-> <<>>]

Frame(wf, id, action, url, selector, values, typed) ==
  [wf |-> wf, id |-> id, action |-> action, url |-> url,
   selector |-> selector, values |-> values, typed |-> typed]

\* The actions whose command struct has a field with the JSON name url,
\* selector or values, and those whose field is tagged omitempty.
UrlActions ==
  { "navigate", "route", "waitforurl", "frame", "unroute", "tab_new",
    "addscript", "addstyle" }

SelectorActions ==
  { "click", "type", "fill", "check", "uncheck", "upload", "dblclick",
    "focus", "nth", "download", "getattribute", "gettext", "isvisible",
    "isenabled", "ischecked", "count", "boundingbox", "scrollintoview",
    "select", "multiselect", "hover", "tap", "highlight", "clear",
    "selectall", "innertext", "innerhtml", "inputvalue", "setvalue",
    "dispatch", "frame", "press", "screenshot", "snapshot", "wait",
    "scroll", "content", "wheel" }

ValuesActions == { "select", "multiselect" }

OmitEmptyUrl == { "frame", "unroute", "tab_new", "addscript", "addstyle" }

OmitEmptySelector ==
  { "frame", "press", "screenshot", "snapshot", "wait", "scroll",
    "content", "wheel" }

\* json.Unmarshal(data, &c) into the struct of the action: a key the struct
\* has no field for is ignored.
DecodeCommand(f) ==
  [kind |-> f.action, id |-> f.id, action |-> f.action,
   url |-> IF f.action \in UrlActions THEN f.url ELSE "",
   selector |-> IF f.action \in SelectorActions THEN f.selector ELSE "",
   values |-> IF f.action \in ValuesActions THEN f.values ELSE <<>>]

\* As ParseCommand but without the test for an empty id.
ParseCommandNoIdCheck(f) ==
  IF ~f.wf
    THEN [ok |-> FALSE, err |-> "failed to parse command", cmd |-> NoCmd]
  ELSE IF f.action = ""
    THEN [ok |-> FALSE, err |-> "command missing action", cmd |-> NoCmd]
  ELSE IF f.action \notin ParseActions
    THEN [ok |-> FALSE, err |-> "unknown action", cmd |-> NoCmd]
  ELSE IF ~f.typed
    THEN [ok |-> FALSE, err |-> "failed to parse action command",
          cmd |-> NoCmd]
  ELSE [ok |-> TRUE, err |-> "", cmd |-> DecodeCommand(f)]

ParseCommand(f) ==
  IF ~f.wf
    THEN [ok |-> FALSE, err |-> "failed to parse command", cmd |-> NoCmd]
  ELSE IF f.id = ""
    THEN [ok |-> FALSE, err |-> "command missing id", cmd |-> NoCmd]
  ELSE IF f.action = ""
    THEN [ok |-> FALSE, err |-> "command missing action", cmd |-> NoCmd]
  ELSE IF f.action \notin ParseActions
    THEN [ok |-> FALSE, err |-> "unknown action", cmd |-> NoCmd]
  ELSE IF ~f.typed
    THEN [ok |-> FALSE, err |-> "failed to parse action command",
          cmd |-> NoCmd]
  ELSE [ok |-> TRUE, err |-> "", cmd |-> DecodeCommand(f)]

\* The zero value a field decodes to when its key is absent.
ZeroValue(key) == IF key = "values" THEN <<>> ELSE ""

\* The keys of the JSON object json.Marshal writes for a command: id and
\* action of the embedded BaseCommand, and each field of the struct unless
\* it is tagged omitempty and holds its zero value.
MarshalKeys(cmd) ==
  {"id", "action"}
    \cup {k \in {"url"} : /\ cmd.kind \in UrlActions
                          /\ ~(cmd.kind \in OmitEmptyUrl /\ cmd.url = "")}
    \cup {k \in {"selector"} :
            /\ cmd.kind \in SelectorActions
            /\ ~(cmd.kind \in OmitEmptySelector /\ cmd.selector = "")}
    \cup {k \in {"values"} : cmd.kind \in ValuesActions}

\* As SerializeCommand, but a field tagged omitempty is never written.
SerializeCommandSkipsOmitEmpty(cmd) ==
  [k \in MarshalKeys(cmd) \ ({k \in {"url"} : cmd.kind \in OmitEmptyUrl}
        \cup {k \in {"selector"} : cmd.kind \in OmitEmptySelector})
     |-> cmd[k]]

\* SerializeCommand: the JSON object as a function from its keys.
SerializeCommand(cmd) == [k \in MarshalKeys(cmd) |-> cmd[k]]

\* The frame ParseCommand sees when it is given the document.
FrameOfDocument(doc) ==
  LET Get(k) == IF k \in DOMAIN doc THEN doc[k] ELSE ZeroValue(k) IN
    Frame(TRUE, Get("id"), Get("action"), Get("url"), Get("selector"),
          Get("values"), TRUE)

\* Responses.  data is "" when the Data field is nil.
NoResp == [id |-> "", success |-> FALSE, data |-> "", error |-> ""]

SuccessResponse(id, data) ==
  [id |-> id, success |-> TRUE, data |-> data, error |-> ""]

ErrorResponse(id, errMsg) ==
  [id |-> id, success |-> FALSE, data |-> "", error |-> errMsg]

\* The payload a handler passes to SuccessResponse ("" for nil).
HandlerData(kind) ==
  IF kind \in { "click", "type", "fill", "check", "uncheck", "press",
                "hover", "focus", "clear", "select", "dblclick", "wait",
                "scroll", "scrollintoview", "setcontent", "setvalue",
                "back", "forward", "reload", "viewport" }
    THEN ""
    ELSE kind

\* ChromeDPBackend.Select indexes values[0] before it calls the engine.
SelectPanics(cmd) == cmd.kind = "select" /\ Len(cmd.values) = 0

\* ExecuteCommand: handler is the case of the type switch that is taken,
\* panic says that the handler does not return, resp is the Response
\* returned when it does.  engineOk is the outcome of the engine call.
ExecuteCommand(cmd, engineOk) ==
  IF cmd.kind \notin ExecActions
    THEN [handler |-> "default", panic |-> FALSE,
          resp |-> ErrorResponse(cmd.id, "unsupported action")]
  ELSE IF SelectPanics(cmd)
    THEN [handler |-> cmd.kind, panic |-> TRUE, resp |-> NoResp]
  ELSE IF cmd.kind = "close" \/ engineOk
    THEN [handler |-> cmd.kind, panic |-> FALSE,
          resp |-> SuccessResponse(cmd.id, HandlerData(cmd.kind))]
  ELSE [handler |-> cmd.kind, panic |-> FALSE,
        resp |-> ErrorResponse(cmd.id, "engine error")]

(***************************************************************************)
(* State.                                                                  *)
(*   pframe, pstage, pres, pdisp : one frame taken through ParseCommand    *)
(*     and ExecuteCommand.                                                 *)
(*   pcmd       : the command the frame was serialized from, if any        *)
(*   proc       : the daemon process: "running", "exited", "crashed"       *)
(*   shutdown   : the shutdown channel is closed                           *)
(*   listener   : "open" or "closed"                                       *)
(*   sockFile, pidFile : the session's artifacts exist                     *)
(*   mu         : the connection whose Stop goroutine holds d.mu, or 0     *)
(*   wg         : the counter of the WaitGroup d.connections               *)
(*   launched   : the engine is launched                                   *)
(*   alPc, alConn : position of acceptLoop, the connection Accept returned *)
(*   mainPc     : position of the main goroutine in Wait                   *)
(*   cstate     : per connection "free", "dialed" (connected, waiting in   *)
(*                the listener's queue), "accepted", "open", "closed",     *)
(*                "refused", "reset"                                       *)
(*   hpc        : position of the connection's handler                     *)
(*   sent, nread : frames the client wrote, how many the handler has read  *)
(*   outbox     : response frames written, each with the number of the     *)
(*                frame it answers                                         *)
(*   resp       : the Response the handler is about to write               *)
(*   clientOpen : the client has not closed its end                        *)
(*   stopPc     : per caller of Stop, the position of its invocation       *)
(*   closeAnswered : a response to a close command has been written        *)
(*   lateDial   : the connection was attempted after closeAnswered         *)
(*   pidOf      : the PID recorded in the session's PID file, 0 when the   *)
(*                file does not exist                                      *)
(*   pidLock    : the daemon holding the lock on the PID file, or 0        *)
(*   sockOwner  : the daemon whose listener the socket path names, or 0    *)
(*   dst        : per daemon process "unborn", "spawned", "reborn",        *)
(*                "unlinked", "bound", "writing", "writingUnlinked",       *)
(*                "serving", "stopping", "draining", "exited"              *)
(*   cpc, cround, cpid, cconn : per client invocation its position, which  *)
(*                of its IsDaemonRunning calls it is in, the PID that call *)
(*                read, and the daemon it is connected to                  *)
(*   args       : per client invocation its flags and command word         *)
(*   saved      : the saved backend, headed preference and user-data       *)
(*                directory of the session ("" for a missing file)         *)
(*   dconf      : per daemon process the backend and user-data directory   *)
(*                of its command line                                      *)
(*   crestart, spid : per client invocation needsRestart, and the PID      *)
(*                StopDaemon read                                          *)
(*   refCounter : the package's ref counter                                *)
(*   snapIn, snapPc : per snapshot call its input and position             *)
(*   todo, outline : per snapshot call the lines to come and those written *)
(*   refs, roleNameCounts : per snapshot call its ref table and counts     *)
(*   bkind      : the backend, "chromedp" or "playwright"                  *)
(*   bLaunched, bHeadless : the backend's launched flag, and the headless  *)
(*                option of the browser that was started last              *)
(*   launches   : browsers started since the last Close                    *)
(*   refMap, refLock : the backend's ref table, and the writer and the     *)
(*                readers holding refLock                                  *)
(*   gpc, gop, gres : per handler goroutine its position in the backend,   *)
(*                its command, and the result of the command               *)
(*   gseen      : per handler goroutine the ref table resolveSelector read *)
(*   gafterLaunch, gafterClose : where the goroutine goes on after Launch  *)
(*                and after Close                                          *)
(*   nops       : commands started                                         *)
(*   targets, activeTab, nextTarget : the page targets in order, the index *)
(*                of the active one, the next target to be created         *)
(*   tabOp      : the last tab operation and whether it succeeded          *)
(***************************************************************************)
VARIABLES pframe, pstage, pres, pdisp, pcmd,
          proc, shutdown, listener, sockFile, pidFile, mu, wg, launched,
          alPc, alConn, mainPc, cstate, hpc, sent, nread, outbox, resp,
          clientOpen, stopPc, closeAnswered, lateDial,
          pidOf, pidLock, sockOwner, dst, cpc, cround, cpid, cconn,
          args, saved, dconf, crestart, spid,
          refCounter, snapIn, snapPc, todo, outline, refs, roleNameCounts,
          bkind, bLaunched, bHeadless, launches, refMap, refLock, gpc, gop,
          gres, gseen, gafterLaunch, gafterClose, nops,
          targets, activeTab, nextTarget, tabOp

parseVars == <<pframe, pstage, pres, pdisp, pcmd>>

daemonVars == <<proc, shutdown, listener, sockFile, pidFile, mu, wg, launched,
                alPc, alConn, mainPc, cstate, hpc, sent, nread, outbox, resp,
                clientOpen, stopPc, closeAnswered, lateDial>>

sessionVars == <<pidOf, pidLock, sockOwner, dst, cpc, cround, cpid, cconn,
                 args, saved, dconf, crestart, spid>>

snapVars == <<refCounter, snapIn, snapPc, todo, outline, refs, roleNameCounts>>

backendVars == <<bkind, bLaunched, bHeadless, launches, refMap, refLock, gpc,
                 gop, gres, gseen, gafterLaunch, gafterClose, nops>>

tabVars == <<targets, activeTab, nextTarget, tabOp>>

vars == <<parseVars, daemonVars, sessionVars, snapVars, backendVars, tabVars>>

\* The daemon right after Start has returned nil: bound, PID file written,
\* acceptLoop started, the main goroutine about to call Wait.
InitDaemonVars ==
  /\ proc = "running"
  /\ shutdown = FALSE
  /\ listener = "open"
  /\ sockFile = TRUE
  /\ pidFile = TRUE
  /\ mu = 0
  /\ wg = 0
  /\ launched = FALSE
  /\ alPc = "accept"
  /\ alConn = 0
  /\ mainPc = "waitShutdown"
  /\ cstate = [c \in Conns |-> "free"]
  /\ hpc = [c \in Conns |-> "none"]
  /\ sent = [c \in Conns |-> <<>>]
  /\ nread = [c \in Conns |-> 0]
  /\ outbox = [c \in Conns |-> <<>>]
  /\ resp = [c \in Conns |-> [id |-> "", success |-> FALSE, data |-> "",
                              error |-> ""]]
  /\ clientOpen = [c \in Conns |-> TRUE]
  /\ stopPc = [c \in StopCallers |-> "none"]
  /\ closeAnswered = FALSE
  /\ lateDial = [c \in Conns |-> FALSE]

\* What pidOf holds while the PID file exists with contents that
\* strconv.Atoi rejects (the empty file that os.WriteFile leaves between
\* its truncation and its write).
BadPid == MaxClients + 1

\* The command lines of the client invocations: the flags main parses and
\* the command word.
LaunchCommands == {"open", "launch"}

PlainOpen ==
  [backend |-> "chromedp", backendSpecified |-> FALSE, userDataDir |-> "",
   headed |-> FALSE, command |-> "open"]

ArgsUniverse ==
  { PlainOpen,
    [PlainOpen EXCEPT !.backend = "playwright", !.backendSpecified = TRUE,
                      !.command = "snapshot"],
    [PlainOpen EXCEPT !.userDataDir = "/profile", !.command = "snapshot"],
    [PlainOpen EXCEPT !.headed = TRUE],
    [PlainOpen EXCEPT !.headed = TRUE, !.command = "snapshot"] }

\* A session nobody has used yet: no PID file, no socket, no daemon.  The
\* daemon that client k starts is daemon k, and its PID is k.
InitSessionFiles ==
  /\ pidOf = 0
  /\ pidLock = 0
  /\ sockOwner = 0
  /\ dst = [d \in Clients |-> "unborn"]
  /\ cpc = [k \in Clients |-> "start"]
  /\ cround = [k \in Clients |-> 1]
  /\ cpid = [k \in Clients |-> 0]
  /\ cconn = [k \in Clients |-> 0]
  /\ saved = [backend |-> "", headed |-> FALSE, userDataDir |-> ""]
  /\ dconf = [d \in Clients |-> [backend |-> "", userDataDir |-> ""]]
  /\ crestart = [k \in Clients |-> FALSE]
  /\ spid = [k \in Clients |-> 0]

InitSessionVars ==
  /\ InitSessionFiles
  /\ args = [k \in Clients |-> PlainOpen]

(***************************************************************************)
(* The snapshot builders: BuildSnapshotFromNodes and processAriaTree.      *)
(***************************************************************************)
InteractiveRoles ==
  {"button", "link", "textbox", "checkbox", "radio", "combobox", "listbox",
   "menuitem", "menuitemcheckbox", "menuitemradio", "option", "searchbox",
   "slider", "spinbutton", "switch", "tab", "treeitem"}

ContentRoles ==
  {"heading", "cell", "gridcell", "columnheader", "rowheader", "listitem",
   "article", "region", "main", "navigation"}

StructuralRoles ==
  {"generic", "group", "list", "table", "row", "rowgroup", "grid",
   "treegrid", "menu", "menubar", "toolbar", "tablist", "tree", "directory",
   "document", "application", "presentation", "none"}

\* strings.ToLower on the roles that occur in the inputs.
ToLower(role) ==
  IF role = "Button" THEN "button"
  ELSE IF role = "LINK" THEN "link"
  ELSE role

\* As ShouldHaveRef, but a content role gets a ref without a name too.
ShouldHaveRefAnyContent(role, name) ==
  role \in InteractiveRoles \/ role \in ContentRoles

\* shouldHaveRef := isInteractive || (isContent && name != "")
ShouldHaveRef(role, name) ==
  role \in InteractiveRoles \/ (role \in ContentRoles /\ name # "")

\* The line that a visited node or ARIA line will produce, before its ref
\* is drawn: role as printed, lowered role, name, depth, whether it gets a
\* ref.  level is the depth of the node in the tree that was given, which
\* the builders do not keep: it is carried along for the properties.
PlannedLine(shown, role, name, depth, level, hasRef) ==
  [shown |-> shown, role |-> role, name |-> name, depth |-> depth,
   level |-> level, hasRef |-> hasRef]

RECURSIVE buildTreeNodeFromAX(_, _, _, _)
RECURSIVE buildChildrenFromAX(_, _, _, _)
\* buildTreeNodeFromAX without the drawing of refs: the lines of the
\* subtree of node in the order they are written.
buildTreeNodeFromAX(node, opts, depth, level) ==
  LET role == ToLower(node.role)
      name == node.name
  IN IF opts.MaxDepth > 0 /\ depth > opts.MaxDepth THEN <<>>
     ELSE IF \/ opts.Interactive /\ role \notin InteractiveRoles
             \/ opts.Compact /\ role \in StructuralRoles /\ name = ""
             \/ role \in {"generic", "none"} /\ name = ""
       THEN buildChildrenFromAX(node.children, opts, depth, level + 1)
     ELSE <<PlannedLine(role, role, name, depth, level,
                        ShouldHaveRef(role, name))>>
            \o buildChildrenFromAX(node.children, opts, depth + 1, level + 1)

\* for _, child := range node.Children
buildChildrenFromAX(children, opts, depth, level) ==
  IF children = <<>> THEN <<>>
  ELSE buildTreeNodeFromAX(Head(children), opts, depth, level)
         \o buildChildrenFromAX(Tail(children), opts, depth, level)

RECURSIVE processAriaLines(_, _)
\* processAriaTree's loop over the lines without the drawing of refs: a
\* line the regular expression does not match, or whose role is not
\* interactive, is dropped in interactive mode and kept as it is otherwise.
processAriaLines(lines, opts) ==
  IF lines = <<>> THEN <<>>
  ELSE LET line == Head(lines)
           roleLower == ToLower(line.role)
           rest == processAriaLines(Tail(lines), opts)
       IN IF ~line.matches
            THEN IF opts.Interactive THEN rest
                 ELSE <<PlannedLine(line.role, "", "", 0, 0, FALSE)>> \o rest
          ELSE IF opts.Interactive /\ roleLower \notin InteractiveRoles
            THEN rest
          ELSE <<PlannedLine(line.role, roleLower, line.name, 0, 0,
                             ShouldHaveRef(roleLower, line.name))>> \o rest

\* The inputs: accessibility trees as the page script returns them, and
\* ARIA snapshot texts as lines.
AXNode(role, name, children) ==
  [role |-> role, name |-> name, children |-> children]

AriaLine(matches, role, name) ==
  [matches |-> matches, role |-> role, name |-> name]

NilNode == AXNode("", "", <<>>)

TreeForm ==
  AXNode("document", "", <<
    AXNode("Button", "OK", <<>>),
    AXNode("generic", "", << AXNode("button", "OK", <<>>) >>),
    AXNode("heading", "Title", <<>>) >>)

TreeList ==
  AXNode("main", "Page", <<
    AXNode("list", "", <<
      AXNode("listitem", "a", << AXNode("LINK", "Go", <<>>) >>),
      AXNode("listitem", "a", <<>>) >>),
    AXNode("paragraph", "", <<>>) >>)

TreeButtons ==
  AXNode("generic", "", <<
    AXNode("button", "OK", <<>>), AXNode("button", "OK", <<>>) >>)

TreeTable ==
  AXNode("table", "", <<
    AXNode("row", "", <<
      AXNode("cell", "", <<>>),
      AXNode("cell", "x", << AXNode("textbox", "", <<>>) >>) >>) >>)

AriaForm ==
  << AriaLine(TRUE, "Button", "OK"), AriaLine(FALSE, "/url", ""),
     AriaLine(TRUE, "button", "OK"), AriaLine(TRUE, "text", "") >>

AriaLinks ==
  << AriaLine(TRUE, "heading", "Title"), AriaLine(TRUE, "LINK", "Go") >>

AriaCells ==
  << AriaLine(TRUE, "row", ""), AriaLine(TRUE, "cell", ""),
     AriaLine(TRUE, "cell", "x"), AriaLine(TRUE, "textbox", "") >>

SnapshotOptions ==
  [Interactive : BOOLEAN, Compact : BOOLEAN, MaxDepth : {0, 1}]

DefaultOptions == [Interactive |-> FALSE, Compact |-> FALSE, MaxDepth |-> 0]

SnapshotInput(kind, root, lines, opts) ==
  [kind |-> kind, root |-> root, lines |-> lines, opts |-> opts]

\* What the first call is given, and what the calls that overlap with it
\* are given.
InputUniverse ==
  { SnapshotInput("nodes", t, <<>>, o) :
      t \in {NilNode, TreeForm, TreeList, TreeButtons, TreeTable},
      o \in SnapshotOptions }
  \cup
  { SnapshotInput("aria", NilNode, l, o) :
      l \in {AriaForm, AriaLinks, AriaCells}, o \in SnapshotOptions }

OtherInputs ==
  { SnapshotInput("nodes", TreeButtons, <<>>, DefaultOptions),
    SnapshotInput("aria", NilNode, AriaLinks, DefaultOptions) }

\* The lines a call will write, in order.
PlannedLines(in) ==
  IF in.kind = "aria" THEN processAriaLines(in.lines, in.opts)
  ELSE IF in.root = NilNode THEN <<>>
  ELSE buildTreeNodeFromAX(in.root, in.opts, 0, 0)


\* refs[ref] = RefData{...}
PutRef(table, ref, data) ==
  [r \in DOMAIN table \cup {ref} |-> IF r = ref THEN data ELSE table[r]]

\* As WriteLine, but [ref=eN] is written only for the first node of a
\* role and name.
WriteLineRefOnlyFirst(p, ref, nth) ==
  [role |-> p.shown, name |-> p.name, depth |-> p.depth, level |-> p.level,
   tags |-> IF ref = 0 \/ nth > 0 THEN <<>> ELSE << <<"ref", ref>> >>]

\* The line as written: role, name, then [ref=eN] when the node has a ref,
\* then [nth=k] when k > 0.
WriteLine(p, ref, nth) ==
  [role |-> p.shown, name |-> p.name, depth |-> p.depth, level |-> p.level,
   tags |-> IF ref = 0 THEN <<>>
            ELSE IF nth > 0 THEN << <<"ref", ref>>, <<"nth", nth>> >>
            ELSE << <<"ref", ref>> >>]

\* roleNameCounts[key], 0 for a key that is not in the map.
CountOf(counts, key) == IF key \in DOMAIN counts THEN counts[key] ELSE 0

\* No snapshot call has started.
InitSnapVars ==
  /\ refCounter = 0
  /\ snapPc = [c \in SnapCalls |-> "idle"]
  /\ todo = [c \in SnapCalls |-> <<>>]
  /\ outline = [c \in SnapCalls |-> <<>>]
  /\ refs = [c \in SnapCalls |-> <<>>]
  /\ roleNameCounts = [c \in SnapCalls |-> <<>>]

InitSnapshotIdle ==
  /\ InitSnapVars
  /\ snapIn = [c \in SnapCalls |->
                 SnapshotInput("nodes", NilNode, <<>>, DefaultOptions)]

(***************************************************************************)
(* The backend object (ChromeDPBackend, PlaywrightBackend): Launch, Close, *)
(* GetSnapshot, resolveSelector and the tabs.  A string that a selector    *)
(* or a ref id is made of is a sequence of pieces: "@", "ref=", "e", the   *)
(* decimal digits, and other pieces that none of ParseRef's tests match.   *)
(***************************************************************************)
MaxOps == 3
MaxTargets == 3

Digits == {"0", "1", "2", "3", "4", "5", "6", "7", "8", "9"}

DigitOf(n) ==
  CASE n = 0 -> "0" [] n = 1 -> "1" [] n = 2 -> "2" [] n = 3 -> "3"
    [] n = 4 -> "4" [] n = 5 -> "5" [] n = 6 -> "6" [] n = 7 -> "7"
    [] n = 8 -> "8" [] n = 9 -> "9"

RECURSIVE Itoa(_)
\* The %d of fmt.Sprintf for n >= 0.
Itoa(n) ==
  IF n < 10 THEN <<DigitOf(n)>>
  ELSE Itoa(n \div 10) \o <<DigitOf(n % 10)>>

\* nextRef: fmt.Sprintf("e%d", refCounter.Add(1)), for the counter value n.
FormatRef(n) == <<"e">> \o Itoa(n)

\* buildSelector(role, name); the names of the inputs hold no double quote,
\* so that strings.ReplaceAll leaves them as they are.
buildSelector(role, name) ==
  IF name # ""
    THEN <<"[role=\"", role, "\"][aria-label=\"", name, "\"]">>
    ELSE <<"[role=\"", role, "\"]">>

\* RefData{Selector: buildSelector(role, name), Role, Name, Nth}
RefData(role, name, nth) ==
  [selector |-> buildSelector(role, name), role |-> role, name |-> name,
   nth |-> nth]

\* strings.HasPrefix(s, piece)
HasPrefix(s, piece) == s # <<>> /\ Head(s) = piece

\* regexp.MatchString(`^e\d+$`, s)
MatchesBareRef(s) ==
  /\ Len(s) >= 2
  /\ s[1] = "e"
  /\ \A i \in 2..Len(s) : s[i] \in Digits

\* As ParseRef, but only the form @X is taken for a ref.
ParseRefAtOnly(selector) ==
  IF HasPrefix(selector, "@") THEN Tail(selector)
  ELSE <<>>

\* ParseRef: the ref id of a selector, "" when the selector is not a ref.
ParseRef(selector) ==
  IF HasPrefix(selector, "@") THEN Tail(selector)
  ELSE IF HasPrefix(selector, "ref=") THEN Tail(selector)
  ELSE IF MatchesBareRef(selector) THEN selector
  ELSE <<>>

\* resolveSelector against the ref table it reads under the read lock.
resolveSelector(selector, table) ==
  LET ref == ParseRef(selector)
  IN IF ref = <<>> THEN selector
     ELSE IF ref \in DOMAIN table THEN table[ref].selector
     ELSE selector

RECURSIVE AssignRefs(_, _, _, _)
\* The ref table a builder fills while it writes the lines, when no other
\* call touches refCounter: n is the counter, counts is roleNameCounts.
AssignRefs(lines, n, counts, table) ==
  IF lines = <<>> THEN table
  ELSE LET p == Head(lines)
           key == <<p.role, p.name>>
           nth == CountOf(counts, key)
       IN IF p.hasRef
            THEN AssignRefs(Tail(lines), n + 1,
                   [x \in DOMAIN counts \cup {key} |->
                      IF x = key THEN nth + 1 ELSE counts[x]],
                   PutRef(table, FormatRef(n + 1),
                          RefData(p.role, p.name, nth)))
            ELSE AssignRefs(Tail(lines), n, counts, table)

\* snapshot.Refs of BuildSnapshotFromNodes(treeData, opts) or of
\* processAriaTree(ariaTree, opts).
SnapshotRefs(in) == AssignRefs(PlannedLines(in), 0, <<>>, <<>>)

\* What the page gives to GetSnapshot: the tree the script returns (null
\* for a page without body), or the text of AriaSnapshot ("" as no lines).
Pages(kind) ==
  IF kind = "chromedp"
    THEN { SnapshotInput("nodes", NilNode, <<>>, DefaultOptions),
           SnapshotInput("nodes", TreeButtons, <<>>, DefaultOptions) }
    ELSE { SnapshotInput("aria", NilNode, <<>>, DefaultOptions),
           SnapshotInput("aria", NilNode, AriaLinks, DefaultOptions) }

NoPage == SnapshotInput("nodes", NilNode, <<>>, DefaultOptions)

SelectorUniverse ==
  { <<"@", "e", "1">>, <<"ref=", "e", "2">>, <<"e", "1">>,
    <<"@", "e", "9">>, <<"#btn">>, <<"e", "x">> }

BackendOp(action, headless, selector, page) ==
  [action |-> action, headless |-> headless, selector |-> selector,
   page |-> page]

NoOp == BackendOp("", FALSE, <<>>, NoPage)

\* The commands of the connection handlers: launch, close, snapshot, and
\* click for the commands that take a selector.
BackendOps(kind) ==
  { BackendOp("launch", h, <<>>, NoPage) : h \in BOOLEAN }
  \cup { BackendOp("close", FALSE, <<>>, NoPage) }
  \cup { BackendOp("snapshot", FALSE, <<>>, p) : p \in Pages(kind) }
  \cup { BackendOp("click", FALSE, s, NoPage) : s \in SelectorUniverse }

NoResult == [ok |-> FALSE, refs |-> <<>>, selector |-> <<>>]

\* Where a command starts after the launch check of handleConnection.
FirstPos(op) ==
  CASE op.action = "launch" -> "launchLoad"
    [] op.action = "close" -> "closeLoad"
    [] op.action = "snapshot" -> "snapEval"
    [] op.action = "click" -> "resParse"

\* opts.Headless of the Launch call a handler is in: that of the launch
\* command, else !GetSessionHeaded(d.session) of a session without a saved
\* headed preference.
LaunchHeadless(g) ==
  IF gop[g].action = "launch" THEN gop[g].headless ELSE TRUE

\* The positions between which a goroutine reads the ref table, and those
\* between which it writes it.
ReadPositions == {"resLookup"}
WritePositions == {"snapStore", "closeClear"}

\* No backend command has been started.
InitBackendObject ==
  /\ bLaunched = FALSE
  /\ bHeadless = FALSE
  /\ launches = 0
  /\ refMap = <<>>
  /\ refLock = [w |-> 0, r |-> {}]
  /\ gpc = [g \in Conns |-> "idle"]
  /\ gop = [g \in Conns |-> NoOp]
  /\ gres = [g \in Conns |-> NoResult]
  /\ gseen = [g \in Conns |-> <<>>]
  /\ gafterLaunch = [g \in Conns |-> "ret"]
  /\ gafterClose = [g \in Conns |-> "ret"]
  /\ nops = 0

InitBackendIdle ==
  /\ bkind = "chromedp"
  /\ InitBackendObject

\* The tabs right after Launch: one page target, which is active.
InitTabVars ==
  /\ targets = <<1>>
  /\ activeTab = 0
  /\ nextTarget = 2
  /\ tabOp = [op |-> "launch", index |-> 0, ok |-> TRUE]

(***************************************************************************)
(* SpecParse: ParseCommand and ExecuteCommand applied to one frame drawn   *)
(* from FrameUniverse.                                                     *)
(***************************************************************************)
FrameIds == {"", "1"}
FrameActions == ParseActions \cup {"", "bogus"}
FrameUniverse ==
  { Frame(wf, id, a, u, s, v, t) :
      wf \in BOOLEAN, id \in FrameIds, a \in FrameActions,
      u \in {"", "https://example.com"}, s \in {"", "#btn"},
      v \in {<<>>, <<"a">>}, t \in BOOLEAN }

NoParse == [ok |-> FALSE, err |-> "", cmd |-> NoCmd]
NoDispatch == [handler |-> "", panic |-> FALSE, resp |-> NoResp]

InitParse ==
  /\ pframe \in FrameUniverse
  /\ pstage = "input"
  /\ pres = NoParse
  /\ pdisp = NoDispatch
  /\ pcmd = NoCmd
  /\ InitDaemonVars
  /\ InitBackendIdle
  /\ InitTabVars
  /\ InitSessionVars
  /\ InitSnapshotIdle

ParseStep ==
  /\ pstage = "input"
  /\ pres' = ParseCommand(pframe)
  /\ pstage' = "parsed"
  /\ UNCHANGED <<pframe, pdisp, pcmd, daemonVars, sessionVars, snapVars, backendVars, tabVars>>

DispatchStep ==
  /\ pstage = "parsed"
  /\ pres.ok
  /\ \E engineOk \in BOOLEAN : pdisp' = ExecuteCommand(pres.cmd, engineOk)
  /\ pstage' = "dispatched"
  /\ UNCHANGED <<pframe, pres, pcmd, daemonVars, sessionVars, snapVars, backendVars, tabVars>>

NextParse == ParseStep \/ DispatchStep

SpecParse == InitParse /\ [][NextParse]_vars

(***************************************************************************)
(* SpecSerialize: a command value drawn from CommandUniverse is serialized *)
(* by SerializeCommand and the document is given to ParseCommand.          *)
(***************************************************************************)
\* The valid command values: id and action set, the action that of the
\* type, and no value in a field the type does not have.
CommandUniverse ==
  { c \in [kind : ParseActions, id : {"1", "req-2"}, action : ParseActions,
           url : {"", "https://example.com"}, selector : {"", "#btn"},
           values : {<<>>, <<"a">>, <<"a", "b">>}] :
      /\ c.action = c.kind
      /\ c.kind \notin UrlActions => c.url = ""
      /\ c.kind \notin SelectorActions => c.selector = ""
      /\ c.kind \notin ValuesActions => c.values = <<>> }

\* No bytes have been produced yet.
NoFrame == Frame(FALSE, "", "", "", "", <<>>, FALSE)

InitSerialize ==
  /\ pcmd \in CommandUniverse
  /\ pframe = NoFrame
  /\ pstage = "command"
  /\ pres = NoParse
  /\ pdisp = NoDispatch
  /\ InitDaemonVars
  /\ InitBackendIdle
  /\ InitTabVars
  /\ InitSessionVars
  /\ InitSnapshotIdle

\* Client.Send: SerializeCommand(cmd), and the bytes are written.
SerializeStep ==
  /\ pstage = "command"
  /\ pframe' = FrameOfDocument(SerializeCommand(pcmd))
  /\ pstage' = "input"
  /\ UNCHANGED <<pres, pdisp, pcmd, daemonVars, sessionVars, snapVars, backendVars, tabVars>>

NextSerialize == SerializeStep \/ ParseStep \/ DispatchStep

SpecSerialize == InitSerialize /\ [][NextSerialize]_vars

(***************************************************************************)
(* Spec: one daemon process serving its connections, from the return of    *)
(* Start to the exit of the process.                                       *)
(***************************************************************************)
FUnknown == Frame(TRUE, "u1", "bogus", "", "", <<>>, TRUE)
FNavigate ==
  Frame(TRUE, "n1", "navigate", "https://example.com", "", <<>>, TRUE)
FSelectNoValues == Frame(TRUE, "s1", "select", "", "#btn", <<>>, TRUE)
FClose == Frame(TRUE, "c1", "close", "", "", <<>>, TRUE)

DaemonFrames == {FUnknown, FNavigate, FSelectNoValues, FClose}

RECURSIVE SumLen(_, _)
SumLen(f, S) ==
  IF S = {} THEN 0
  ELSE LET c == CHOOSE x \in S : TRUE IN Len(f[c]) + SumLen(f, S \ {c})

TotalSent == SumLen(sent, Conns)

\* The frame the handler of c has read last, and the command parsed from it.
CurFrame(c) == sent[c][nread[c]]
CurCmd(c) == ParseCommand(CurFrame(c)).cmd

Connected(c) == cstate[c] \in {"dialed", "accepted", "open"}

\* The end of the process closes every socket it holds: the peers of its
\* connections, queued or accepted, see them reset.
ProcessGone ==
  [k \in Conns |-> IF Connected(k) THEN "reset" ELSE cstate[k]]

\* ---- clients ----

\* Client.Connect: net.Dial succeeds when a listener is bound and listening.
ClientDial(c) ==
  /\ cstate[c] = "free"
  /\ \A k \in Conns : k < c => cstate[k] # "free"
  /\ cstate' = [cstate EXCEPT ![c] =
                  IF proc = "running" /\ listener = "open"
                    THEN "dialed" ELSE "refused"]
  /\ lateDial' = [lateDial EXCEPT ![c] = closeAnswered]
  /\ UNCHANGED <<parseVars, snapVars, sessionVars, proc, shutdown, listener, sockFile, pidFile, mu, wg, launched, alPc, alConn, mainPc, hpc, sent, nread, outbox, resp, clientOpen, stopPc, closeAnswered, backendVars, tabVars>>

\* A client writes one newline-terminated frame.
ClientSend(c, f) ==
  /\ Connected(c)
  /\ clientOpen[c]
  /\ TotalSent < MaxFrames
  /\ sent' = [sent EXCEPT ![c] = Append(@, f)]
  /\ UNCHANGED <<parseVars, snapVars, sessionVars, proc, shutdown, listener, sockFile, pidFile, mu, wg, launched, alPc, alConn, mainPc, cstate, hpc, nread, outbox, resp, clientOpen, stopPc, closeAnswered, lateDial, backendVars, tabVars>>

\* Client.Close.
ClientClose(c) ==
  /\ Connected(c)
  /\ clientOpen[c]
  /\ clientOpen' = [clientOpen EXCEPT ![c] = FALSE]
  /\ UNCHANGED <<parseVars, snapVars, sessionVars, proc, shutdown, listener, sockFile, pidFile, mu, wg, launched, alPc, alConn, mainPc, cstate, hpc, sent, nread, outbox, resp, stopPc, closeAnswered, lateDial, backendVars, tabVars>>

\* ---- acceptLoop ----

\* d.listener.Accept() returns a connection.
AcceptConn(c) ==
  /\ proc = "running"
  /\ alPc = "accept"
  /\ listener = "open"
  /\ cstate[c] = "dialed"
  /\ cstate' = [cstate EXCEPT ![c] = "accepted"]
  /\ alConn' = c
  /\ alPc' = "add"
  /\ UNCHANGED <<parseVars, snapVars, sessionVars, proc, shutdown, listener, sockFile, pidFile, mu, wg, launched, mainPc, hpc, sent, nread, outbox, resp, clientOpen, stopPc, closeAnswered, lateDial, backendVars, tabVars>>

\* d.listener.Accept() fails because the listener is closed, which Stop does
\* after it has closed d.shutdown: the select that follows returns.
AcceptError ==
  /\ proc = "running"
  /\ alPc = "accept"
  /\ listener = "closed"
  /\ alPc' = IF shutdown THEN "done" ELSE "accept"
  /\ UNCHANGED <<parseVars, snapVars, sessionVars, proc, shutdown, listener, sockFile, pidFile, mu, wg, launched, alConn, mainPc, cstate, hpc, sent, nread, outbox, resp, clientOpen, stopPc, closeAnswered, lateDial, backendVars, tabVars>>

\* d.connections.Add(1); go d.handleConnection(conn); then the select on
\* d.shutdown at the top of the loop: return, or go on to Accept.
AcceptAdd ==
  /\ proc = "running"
  /\ alPc = "add"
  /\ wg' = wg + 1
  /\ cstate' = [cstate EXCEPT ![alConn] = "open"]
  /\ hpc' = [hpc EXCEPT ![alConn] = "read"]
  /\ alConn' = 0
  /\ alPc' = IF shutdown THEN "done" ELSE "accept"
  /\ UNCHANGED <<parseVars, snapVars, sessionVars, proc, shutdown, listener, sockFile, pidFile, mu, launched, mainPc, sent, nread, outbox, resp, clientOpen, stopPc, closeAnswered, lateDial, backendVars, tabVars>>

\* ---- handleConnection ----

\* reader.ReadBytes('\n') returns a frame; ParseCommand(line).
HRead(c) ==
  /\ proc = "running"
  /\ hpc[c] = "read"
  /\ nread[c] < Len(sent[c])
  /\ nread' = [nread EXCEPT ![c] = @ + 1]
  /\ LET r == ParseCommand(sent[c][nread[c] + 1]) IN
       IF r.ok
         THEN /\ hpc' = [hpc EXCEPT ![c] = "chk"]
              /\ resp' = resp
         ELSE /\ hpc' = [hpc EXCEPT ![c] = "werr"]
              /\ resp' = [resp EXCEPT ![c] = ErrorResponse("", r.err)]
  /\ UNCHANGED <<parseVars, snapVars, sessionVars, proc, shutdown, listener, sockFile, pidFile, mu, wg, launched, alPc, alConn, mainPc, cstate, sent, outbox, clientOpen, stopPc, closeAnswered, lateDial, backendVars, tabVars>>

\* reader.ReadBytes fails (the client has closed its end): return, and the
\* deferred conn.Close() and d.connections.Done() run.
HReadEOF(c) ==
  /\ proc = "running"
  /\ hpc[c] = "read"
  /\ nread[c] = Len(sent[c])
  /\ ~clientOpen[c]
  /\ hpc' = [hpc EXCEPT ![c] = "done"]
  /\ cstate' = [cstate EXCEPT ![c] = "closed"]
  /\ wg' = wg - 1
  /\ UNCHANGED <<parseVars, snapVars, sessionVars, proc, shutdown, listener, sockFile, pidFile, mu, launched, alPc, alConn, mainPc, sent, nread, outbox, resp, clientOpen, stopPc, closeAnswered, lateDial, backendVars, tabVars>>

\* As HWriteErr, but the handler returns after the error response.
HWriteErrDrop(c) ==
  /\ proc = "running"
  /\ hpc[c] = "werr"
  /\ outbox' = [outbox EXCEPT ![c] = Append(@, [resp |-> resp[c],
                                                 seq |-> nread[c]])]
  /\ hpc' = [hpc EXCEPT ![c] = "done"]
  /\ cstate' = [cstate EXCEPT ![c] = "closed"]
  /\ wg' = wg - 1
  /\ UNCHANGED <<parseVars, snapVars, sessionVars, proc, shutdown, listener, sockFile, pidFile, mu, launched, alPc, alConn, mainPc, sent, nread, resp, clientOpen, stopPc, closeAnswered, lateDial, backendVars, tabVars>>

\* The parse-error branch: d.writeResponse(conn, resp); continue
HWriteErr(c) ==
  /\ proc = "running"
  /\ hpc[c] = "werr"
  /\ outbox' = [outbox EXCEPT ![c] = Append(@, [resp |-> resp[c],
                                                 seq |-> nread[c]])]
  /\ hpc' = [hpc EXCEPT ![c] = "read"]
  /\ UNCHANGED <<parseVars, snapVars, sessionVars, proc, shutdown, listener, sockFile, pidFile, mu, wg, launched, alPc, alConn, mainPc, cstate, sent, nread, resp, clientOpen, stopPc, closeAnswered, lateDial, backendVars, tabVars>>

\* action != "launch" && action != "close" && !d.browser.IsLaunched()
HCheckLaunch(c) ==
  /\ proc = "running"
  /\ hpc[c] = "chk"
  /\ hpc' = [hpc EXCEPT ![c] =
               IF CurCmd(c).action \notin {"launch", "close"} /\ ~launched
                 THEN "launch" ELSE "exec"]
  /\ UNCHANGED <<parseVars, snapVars, sessionVars, proc, shutdown, listener, sockFile, pidFile, mu, wg, launched, alPc, alConn, mainPc, cstate, sent, nread, outbox, resp, clientOpen, stopPc, closeAnswered, lateDial, backendVars, tabVars>>

\* d.browser.Launch(...): the error, if any, is dropped.
HLaunch(c) ==
  /\ proc = "running"
  /\ hpc[c] = "launch"
  /\ \E ok \in BOOLEAN : launched' = (launched \/ ok)
  /\ hpc' = [hpc EXCEPT ![c] = "exec"]
  /\ UNCHANGED <<parseVars, snapVars, sessionVars, proc, shutdown, listener, sockFile, pidFile, mu, wg, alPc, alConn, mainPc, cstate, sent, nread, outbox, resp, clientOpen, stopPc, closeAnswered, lateDial, backendVars, tabVars>>

\* The engine can only succeed on a launched browser.
EngineOutcomes(cmd) ==
  IF launched \/ cmd.kind \in {"launch", "close"} THEN BOOLEAN ELSE {FALSE}

\* resp := ExecuteCommand(cmd, d.browser).  A panic in the handler is not
\* recovered anywhere: it ends the process.
HExec(c) ==
  /\ proc = "running"
  /\ hpc[c] = "exec"
  /\ \E engineOk \in EngineOutcomes(CurCmd(c)) :
       LET x == ExecuteCommand(CurCmd(c), engineOk) IN
         IF x.panic
           THEN /\ proc' = "crashed"
                /\ cstate' = ProcessGone
                /\ UNCHANGED <<resp, hpc, launched>>
           ELSE /\ resp' = [resp EXCEPT ![c] = x.resp]
                /\ hpc' = [hpc EXCEPT ![c] = "write"]
                /\ launched' = IF x.handler = "close" THEN FALSE
                               ELSE IF x.handler = "launch" THEN x.resp.success
                               ELSE launched
                /\ proc' = proc
                /\ cstate' = cstate
  /\ UNCHANGED <<parseVars, snapVars, sessionVars, shutdown, listener, sockFile, pidFile, mu, wg, alPc, alConn, mainPc, sent, nread, outbox, clientOpen, stopPc, closeAnswered, lateDial, backendVars, tabVars>>

\* As HWrite, but the response is not written.
HWriteSkipped(c) ==
  /\ proc = "running"
  /\ hpc[c] = "write"
  /\ hpc' = [hpc EXCEPT ![c] =
               IF CurCmd(c).action = "close" THEN "sleep" ELSE "read"]
  /\ closeAnswered' = (closeAnswered \/ CurCmd(c).action = "close")
  /\ UNCHANGED <<parseVars, snapVars, sessionVars, proc, shutdown, listener, sockFile, pidFile, mu, wg, launched, alPc, alConn, mainPc, cstate, sent, nread, outbox, resp, clientOpen, stopPc, lateDial, backendVars, tabVars>>

\* d.writeResponse(conn, resp) after ExecuteCommand; a close command goes on
\* to the sleep before Stop.
HWrite(c) ==
  /\ proc = "running"
  /\ hpc[c] = "write"
  /\ outbox' = [outbox EXCEPT ![c] = Append(@, [resp |-> resp[c],
                                                 seq |-> nread[c]])]
  /\ hpc' = [hpc EXCEPT ![c] =
               IF CurCmd(c).action = "close" THEN "sleep" ELSE "read"]
  /\ closeAnswered' = (closeAnswered \/ CurCmd(c).action = "close")
  /\ UNCHANGED <<parseVars, snapVars, sessionVars, proc, shutdown, listener, sockFile, pidFile, mu, wg, launched, alPc, alConn, mainPc, cstate, sent, nread, resp, clientOpen, stopPc, lateDial, backendVars, tabVars>>

\* After the sleep: go d.Stop(); return (conn.Close, connections.Done).
HGoStop(c) ==
  /\ proc = "running"
  /\ hpc[c] = "sleep"
  /\ stopPc' = [stopPc EXCEPT ![c] = "enter"]
  /\ hpc' = [hpc EXCEPT ![c] = "done"]
  /\ cstate' = [cstate EXCEPT ![c] = "closed"]
  /\ wg' = wg - 1
  /\ UNCHANGED <<parseVars, snapVars, sessionVars, proc, shutdown, listener, sockFile, pidFile, mu, launched, alPc, alConn, mainPc, sent, nread, outbox, resp, clientOpen, closeAnswered, lateDial, backendVars, tabVars>>

\* ---- the signal goroutine ----

\* <-sigChan returns (SIGINT or SIGTERM was delivered); d.Stop() is called.
SignalStop ==
  /\ proc = "running"
  /\ stopPc[SigCaller] = "none"
  /\ stopPc' = [stopPc EXCEPT ![SigCaller] = "enter"]
  /\ UNCHANGED <<parseVars, snapVars, sessionVars, proc, shutdown, listener, sockFile, pidFile, mu, wg, launched, alPc, alConn, mainPc, cstate, hpc, sent, nread, outbox, resp, clientOpen, closeAnswered, lateDial, backendVars, tabVars>>

\* ---- Stop ----

\* As StopEnter, without the mutex and without the select on d.shutdown.
StopEnterUnguarded(c) ==
  /\ proc = "running"
  /\ stopPc[c] = "enter"
  /\ mu' = c
  /\ shutdown' = TRUE
  /\ stopPc' = [stopPc EXCEPT ![c] = "closeListener"]
  /\ UNCHANGED <<parseVars, snapVars, sessionVars, proc, listener, sockFile, pidFile, wg, launched, alPc, alConn, mainPc, cstate, hpc, sent, nread, outbox, resp, clientOpen, closeAnswered, lateDial, backendVars, tabVars>>

\* d.mu.Lock(); select on d.shutdown: return when closed, else close it.
StopEnter(c) ==
  /\ proc = "running"
  /\ stopPc[c] = "enter"
  /\ mu = 0
  /\ IF shutdown
       THEN /\ stopPc' = [stopPc EXCEPT ![c] = "returned"]
            /\ UNCHANGED <<mu, shutdown>>
       ELSE /\ mu' = c
            /\ shutdown' = TRUE
            /\ stopPc' = [stopPc EXCEPT ![c] = "closeListener"]
  /\ UNCHANGED <<parseVars, snapVars, sessionVars, proc, listener, sockFile, pidFile, wg, launched, alPc, alConn, mainPc, cstate, hpc, sent, nread, outbox, resp, clientOpen, closeAnswered, lateDial, backendVars, tabVars>>

\* d.listener.Close(): a unix listener unlinks its socket file; connections
\* still waiting in its queue are reset.
StopCloseListener(c) ==
  /\ proc = "running"
  /\ stopPc[c] = "closeListener"
  /\ listener' = "closed"
  /\ sockFile' = FALSE
  /\ cstate' = [k \in Conns |->
                  IF cstate[k] = "dialed" THEN "reset" ELSE cstate[k]]
  /\ stopPc' = [stopPc EXCEPT ![c] = "wait"]
  /\ UNCHANGED <<parseVars, snapVars, sessionVars, proc, shutdown, pidFile, mu, wg, launched, alPc, alConn, mainPc, hpc, sent, nread, outbox, resp, clientOpen, closeAnswered, lateDial, backendVars, tabVars>>

\* d.connections.Wait()
StopWait(c) ==
  /\ proc = "running"
  /\ stopPc[c] = "wait"
  /\ wg = 0
  /\ stopPc' = [stopPc EXCEPT ![c] = "closeBrowser"]
  /\ UNCHANGED <<parseVars, snapVars, sessionVars, proc, shutdown, listener, sockFile, pidFile, mu, wg, launched, alPc, alConn, mainPc, cstate, hpc, sent, nread, outbox, resp, clientOpen, closeAnswered, lateDial, backendVars, tabVars>>

\* d.browser.Close()
StopCloseBrowser(c) ==
  /\ proc = "running"
  /\ stopPc[c] = "closeBrowser"
  /\ launched' = FALSE
  /\ stopPc' = [stopPc EXCEPT ![c] = "cleanup"]
  /\ UNCHANGED <<parseVars, snapVars, sessionVars, proc, shutdown, listener, sockFile, pidFile, mu, wg, alPc, alConn, mainPc, cstate, hpc, sent, nread, outbox, resp, clientOpen, closeAnswered, lateDial, backendVars, tabVars>>

\* d.cleanup()
StopCleanup(c) ==
  /\ proc = "running"
  /\ stopPc[c] = "cleanup"
  /\ pidFile' = FALSE
  /\ sockFile' = FALSE
  /\ stopPc' = [stopPc EXCEPT ![c] = "exit"]
  /\ UNCHANGED <<parseVars, snapVars, sessionVars, proc, shutdown, listener, mu, wg, launched, alPc, alConn, mainPc, cstate, hpc, sent, nread, outbox, resp, clientOpen, closeAnswered, lateDial, backendVars, tabVars>>

\* os.Exit(0)
StopExit(c) ==
  /\ proc = "running"
  /\ stopPc[c] = "exit"
  /\ proc' = "exited"
  /\ cstate' = ProcessGone
  /\ stopPc' = [stopPc EXCEPT ![c] = "exited"]
  /\ UNCHANGED <<parseVars, snapVars, sessionVars, shutdown, listener, sockFile, pidFile, mu, wg, launched, alPc, alConn, mainPc, hpc, sent, nread, outbox, resp, clientOpen, closeAnswered, lateDial, backendVars, tabVars>>

\* ---- main goroutine: d.Wait(), then return from handleDaemon ----

\* <-d.shutdown
MainWaitShutdown ==
  /\ proc = "running"
  /\ mainPc = "waitShutdown"
  /\ shutdown
  /\ mainPc' = "waitConns"
  /\ UNCHANGED <<parseVars, snapVars, sessionVars, proc, shutdown, listener, sockFile, pidFile, mu, wg, launched, alPc, alConn, cstate, hpc, sent, nread, outbox, resp, clientOpen, stopPc, closeAnswered, lateDial, backendVars, tabVars>>

\* d.connections.Wait() returns, handleDaemon returns (the deferred
\* ctx.Release() removes the PID file) and the process ends.
MainReturn ==
  /\ proc = "running"
  /\ mainPc = "waitConns"
  /\ wg = 0
  /\ mainPc' = "returned"
  /\ pidFile' = FALSE
  /\ proc' = "exited"
  /\ cstate' = ProcessGone
  /\ UNCHANGED <<parseVars, snapVars, sessionVars, shutdown, listener, sockFile, mu, wg, launched, alPc, alConn, hpc, sent, nread, outbox, resp, clientOpen, stopPc, closeAnswered, lateDial, backendVars, tabVars>>

Client == \E c \in Conns :
            \/ ClientDial(c)
            \/ \E f \in DaemonFrames : ClientSend(c, f)
            \/ ClientClose(c)

AcceptLoop == (\E c \in Conns : AcceptConn(c)) \/ AcceptError
                \/ AcceptAdd

Handler(c) == \/ HRead(c) \/ HReadEOF(c) \/ HWriteErr(c) \/ HCheckLaunch(c)
              \/ HLaunch(c) \/ HExec(c) \/ HWrite(c) \/ HGoStop(c)

Stop(c) == \/ StopEnter(c) \/ StopCloseListener(c) \/ StopWait(c)
           \/ StopCloseBrowser(c) \/ StopCleanup(c) \/ StopExit(c)

MainWait == MainWaitShutdown \/ MainReturn

DaemonStep == \/ AcceptLoop \/ MainWait
              \/ \E c \in Conns : Handler(c)
              \/ \E c \in StopCallers : Stop(c)

Init ==
  /\ InitDaemonVars
  /\ InitBackendIdle
  /\ InitTabVars
  /\ InitSessionVars
  /\ InitSnapshotIdle
  /\ pframe = FClose
  /\ pstage = "input"
  /\ pres = NoParse
  /\ pdisp = NoDispatch
  /\ pcmd = NoCmd

Next == Client \/ SignalStop \/ DaemonStep

Spec == Init /\ [][Next]_vars

\* The goroutines of the daemon are scheduled fairly; clients are not
\* obliged to do anything.
FairSpec ==
  /\ Spec
  /\ WF_vars(AcceptLoop)
  /\ WF_vars(MainWait)
  /\ \A c \in Conns : WF_vars(Handler(c))
  /\ \A c \in StopCallers : WF_vars(Stop(c))

(***************************************************************************)
(* SpecSession: concurrent client invocations for one session name, each   *)
(* checking whether the daemon must be restarted, ensuring that a daemon   *)
(* runs and connecting to it, and the daemons they start, from the daemon  *)
(* command to the exit of the process.                                     *)
(***************************************************************************)
Alive(d) ==
  dst[d] \in {"reborn", "unlinked", "bound", "writing", "writingUnlinked",
              "serving", "stopping", "draining"}

Listening(d) ==
  dst[d] \in {"bound", "writing", "writingUnlinked", "serving", "stopping"}

\* os.Remove(pidFile) while a daemon is inside os.WriteFile: the file that
\* daemon has open is no longer the one the path names.
UnlinkPidFile ==
  [d \in Clients |-> IF dst[d] = "writing" THEN "writingUnlinked" ELSE dst[d]]

\* GetSessionBackend: the saved backend, "chromedp" when the file is
\* missing or empty.
GetSessionBackend == IF saved.backend = "" THEN "chromedp" ELSE saved.backend

\* The end of daemon d closes its connections: a client whose command is
\* with d fails.
Disconnected(d) ==
  [k \in Clients |-> IF cconn[k] = d /\ cpc[k] = "connected" THEN "failed"
                     ELSE cpc[k]]

Dropped(d) == [k \in Clients |-> IF cconn[k] = d THEN 0 ELSE cconn[k]]

\* Where an invocation goes on when IsDaemonRunning returns: call 1 is the
\* restart check of main, call 2 the one inside StopDaemon (whose error
\* main ignores), call 3 the one that ensures a daemon is running.
AfterIsDaemonRunning(k, running) ==
  IF cround[k] = 1 THEN (IF running THEN "checkRestart" ELSE "readPid")
  ELSE IF cround[k] = 2 THEN (IF running THEN "stopConnect" ELSE "sleep")
  ELSE IF running THEN "connect" ELSE "save"

NextRound(k, running) ==
  [cround EXCEPT ![k] = IF running \/ cround[k] = 2 THEN cround[k] ELSE 3]

\* main: without --backend (and without the environment variable) the
\* backend is the saved one.
CLoadBackend(k) ==
  /\ cpc[k] = "start"
  /\ args' = [args EXCEPT ![k].backend =
                IF args[k].backendSpecified THEN @ ELSE GetSessionBackend]
  /\ cpc' = [cpc EXCEPT ![k] = "readPid"]
  /\ UNCHANGED <<parseVars, snapVars, daemonVars, pidOf, pidLock, sockOwner, dst, cround, cpid, cconn, saved, dconf, crestart, spid, backendVars, tabVars>>

\* IsDaemonRunning: os.ReadFile(pidFile) and strconv.Atoi; an error of
\* either returns false.
CReadPid(k) ==
  /\ cpc[k] = "readPid"
  /\ IF pidOf = 0 \/ pidOf = BadPid
       THEN /\ cpc' = [cpc EXCEPT ![k] = AfterIsDaemonRunning(k, FALSE)]
            /\ cround' = NextRound(k, FALSE)
            /\ cpid' = cpid
       ELSE /\ cpc' = [cpc EXCEPT ![k] = "signal"]
            /\ cpid' = [cpid EXCEPT ![k] = pidOf]
            /\ cround' = cround
  /\ UNCHANGED <<parseVars, snapVars, daemonVars, pidOf, pidLock, sockOwner, dst, cconn, args, saved, dconf, crestart, spid, backendVars, tabVars>>

\* IsDaemonRunning: process.Signal(0) tells whether the process exists.
CSignal(k) ==
  /\ cpc[k] = "signal"
  /\ cpc' = [cpc EXCEPT ![k] = IF Alive(cpid[k]) THEN "stat" ELSE "rmPid"]
  /\ UNCHANGED <<parseVars, snapVars, daemonVars, pidOf, pidLock, sockOwner, dst, cround, cpid, cconn, args, saved, dconf, crestart, spid, backendVars, tabVars>>

\* IsDaemonRunning: os.Stat(socketPath).
CStat(k) ==
  /\ cpc[k] = "stat"
  /\ IF sockOwner = 0
       THEN /\ cpc' = [cpc EXCEPT ![k] = "rmPid"]
            /\ cround' = cround
       ELSE /\ cpc' = [cpc EXCEPT ![k] = AfterIsDaemonRunning(k, TRUE)]
            /\ cround' = NextRound(k, TRUE)
  /\ UNCHANGED <<parseVars, snapVars, daemonVars, pidOf, pidLock, sockOwner, dst, cpid, cconn, args, saved, dconf, crestart, spid, backendVars, tabVars>>

\* IsDaemonRunning: os.Remove(pidFile); return false.  The lock of a daemon
\* stays on the file that was unlinked, not on one created later.
CRemovePid(k) ==
  /\ cpc[k] = "rmPid"
  /\ pidOf' = 0
  /\ pidLock' = 0
  /\ dst' = UnlinkPidFile
  /\ cpc' = [cpc EXCEPT ![k] = AfterIsDaemonRunning(k, FALSE)]
  /\ cround' = NextRound(k, FALSE)
  /\ UNCHANGED <<parseVars, snapVars, daemonVars, sockOwner, cpid, cconn, args, saved, dconf, crestart, spid, backendVars, tabVars>>

\* As CCheckRestart, but the headed flag is compared for every command.
CCheckRestartAnyCommand(k) ==
  /\ cpc[k] = "checkRestart"
  /\ LET needsRestart ==
           \/ args[k].backendSpecified /\ GetSessionBackend # args[k].backend
           \/ args[k].userDataDir # ""
                /\ saved.userDataDir # args[k].userDataDir
           \/ args[k].headed # saved.headed
     IN /\ crestart' = [crestart EXCEPT ![k] = needsRestart]
        /\ cround' = [cround EXCEPT ![k] = IF needsRestart THEN 2 ELSE 3]
        /\ spid' = [spid EXCEPT ![k] =
                      IF needsRestart /\ pidOf # BadPid THEN pidOf ELSE 0]
  /\ cpc' = [cpc EXCEPT ![k] = "readPid"]
  /\ UNCHANGED <<parseVars, snapVars, daemonVars, pidOf, pidLock, sockOwner, dst, cpid, cconn, args, saved, dconf, backendVars, tabVars>>

\* main, after IsDaemonRunning has returned true: needsRestart from the
\* saved backend and user-data directory and, for open and launch only,
\* the saved headed preference.  With needsRestart StopDaemon is called,
\* which first reads the PID file (fmt.Sscanf leaves pid 0 when the
\* contents do not parse) and then calls IsDaemonRunning.
CCheckRestart(k) ==
  /\ cpc[k] = "checkRestart"
  /\ LET needsRestart ==
           \/ args[k].backendSpecified /\ GetSessionBackend # args[k].backend
           \/ args[k].userDataDir # ""
                /\ saved.userDataDir # args[k].userDataDir
           \/ args[k].command \in LaunchCommands
                /\ args[k].headed # saved.headed
     IN /\ crestart' = [crestart EXCEPT ![k] = needsRestart]
        /\ cround' = [cround EXCEPT ![k] = IF needsRestart THEN 2 ELSE 3]
        /\ spid' = [spid EXCEPT ![k] =
                      IF needsRestart /\ pidOf # BadPid THEN pidOf ELSE 0]
  /\ cpc' = [cpc EXCEPT ![k] = "readPid"]
  /\ UNCHANGED <<parseVars, snapVars, daemonVars, pidOf, pidLock, sockOwner, dst, cpid, cconn, args, saved, dconf, backendVars, tabVars>>

\* StopDaemon: client.Connect(); when it fails the recorded process is
\* killed (it leaves its files behind) and StopDaemon returns the error.
CStopConnect(k) ==
  /\ cpc[k] = "stopConnect"
  /\ IF sockOwner # 0 /\ Listening(sockOwner)
       THEN /\ cconn' = [cconn EXCEPT ![k] = sockOwner]
            /\ cpc' = [cpc EXCEPT ![k] = "stopSend"]
            /\ UNCHANGED <<dst, pidLock, cround>>
       ELSE /\ cround' = cround
            /\ IF spid[k] # 0 /\ Alive(spid[k])
                 THEN /\ dst' = [dst EXCEPT ![spid[k]] = "exited"]
                      /\ pidLock' = IF pidLock = spid[k] THEN 0 ELSE pidLock
                      /\ cconn' = Dropped(spid[k])
                      /\ cpc' = [Disconnected(spid[k]) EXCEPT ![k] = "sleep"]
                 ELSE /\ cpc' = [cpc EXCEPT ![k] = "sleep"]
                      /\ UNCHANGED <<dst, pidLock, cconn>>
  /\ UNCHANGED <<parseVars, snapVars, daemonVars, pidOf, sockOwner, cpid, args, saved, dconf, crestart, spid, backendVars, tabVars>>

\* StopDaemon: client.Send(closeCmd).  The daemon's handler answers, and
\* after its sleep starts Stop and returns; when the daemon is gone Send
\* fails and StopDaemon returns the error.
CStopSend(k) ==
  /\ cpc[k] = "stopSend"
  /\ cconn[k] # 0 => dst[cconn[k]] \in {"serving", "stopping", "draining"}
  /\ IF cconn[k] # 0
       THEN /\ dst' = [dst EXCEPT ![cconn[k]] =
                         IF @ = "serving" THEN "stopping" ELSE @]
            /\ cpc' = [cpc EXCEPT ![k] = "stopPoll"]
       ELSE /\ dst' = dst
            /\ cpc' = [cpc EXCEPT ![k] = "sleep"]
  /\ cconn' = [cconn EXCEPT ![k] = 0]
  /\ UNCHANGED <<parseVars, snapVars, daemonVars, pidOf, pidLock, sockOwner, cround, cpid, args, saved, dconf, crestart, spid, backendVars, tabVars>>

\* Daemon d has started to stop and nothing keeps it from exiting.
Exiting(d) ==
  \/ dst[d] = "stopping"
  \/ dst[d] = "draining" /\ \A j \in Clients : cconn[j] # d

\* StopDaemon: the loop that waits for the recorded process to exit ends
\* when the process is gone, or after 50 rounds of 100 ms, which a daemon
\* on its way out does not need.
CStopPoll(k) ==
  /\ cpc[k] = "stopPoll"
  /\ spid[k] # 0 => ~Exiting(spid[k])
  /\ cpc' = [cpc EXCEPT ![k] = "sleep"]
  /\ UNCHANGED <<parseVars, snapVars, daemonVars, pidOf, pidLock, sockOwner, dst, cround, cpid, cconn, args, saved, dconf, crestart, spid, backendVars, tabVars>>

\* main: time.Sleep(500 * time.Millisecond) after StopDaemon, whatever it
\* returned.  An os.WriteFile that a daemon was in does not take that long.
CSleep(k) ==
  /\ cpc[k] = "sleep"
  /\ \A d \in Clients : dst[d] \notin {"writing", "writingUnlinked"}
  /\ cpc' = [cpc EXCEPT ![k] = "readPid"]
  /\ cround' = [cround EXCEPT ![k] = 3]
  /\ UNCHANGED <<parseVars, snapVars, daemonVars, pidOf, pidLock, sockOwner, dst, cpid, cconn, args, saved, dconf, crestart, spid, backendVars, tabVars>>

\* SaveSessionBackend, SaveSessionHeaded, SaveSessionUserDataDir.
CSave(k) ==
  /\ cpc[k] = "save"
  /\ saved' = [backend |-> args[k].backend, headed |-> args[k].headed,
               userDataDir |-> args[k].userDataDir]
  /\ cpc' = [cpc EXCEPT ![k] = "startDaemon"]
  /\ UNCHANGED <<parseVars, snapVars, daemonVars, pidOf, pidLock, sockOwner, dst, cround, cpid, cconn, args, dconf, crestart, spid, backendVars, tabVars>>

\* startDaemon: the daemon command is started with --backend and, when not
\* empty, --user-data-dir, and released.
CStartDaemon(k) ==
  /\ cpc[k] = "startDaemon"
  /\ dst' = [dst EXCEPT ![k] = "spawned"]
  /\ dconf' = [dconf EXCEPT ![k] = [backend |-> args[k].backend,
                                    userDataDir |-> args[k].userDataDir]]
  /\ cpc' = [cpc EXCEPT ![k] = "connect"]
  /\ UNCHANGED <<parseVars, snapVars, daemonVars, pidOf, pidLock, sockOwner, cround, cpid, cconn, args, saved, crestart, spid, backendVars, tabVars>>

\* client.Connect(): reaches the daemon whose listener the socket path
\* names; an error ends the invocation.
CConnect(k) ==
  /\ cpc[k] = "connect"
  /\ IF sockOwner # 0 /\ Listening(sockOwner)
       THEN /\ cconn' = [cconn EXCEPT ![k] = sockOwner]
            /\ cpc' = [cpc EXCEPT ![k] = "connected"]
       ELSE /\ cconn' = cconn
            /\ cpc' = [cpc EXCEPT ![k] = "failed"]
  /\ UNCHANGED <<parseVars, snapVars, daemonVars, pidOf, pidLock, sockOwner, dst, cround, cpid, args, saved, dconf, crestart, spid, backendVars, tabVars>>

\* The command has been answered: the deferred client.Close() runs and the
\* invocation ends.
CFinish(k) ==
  /\ cpc[k] = "connected"
  /\ dst[cconn[k]] \in {"serving", "stopping", "draining"}
  /\ cconn' = [cconn EXCEPT ![k] = 0]
  /\ cpc' = [cpc EXCEPT ![k] = "done"]
  /\ UNCHANGED <<parseVars, snapVars, daemonVars, pidOf, pidLock, sockOwner, dst, cround, cpid, args, saved, dconf, crestart, spid, backendVars, tabVars>>

\* handleDaemon: ctx.Reborn() with PidFileName set creates the PID file if
\* needed, locks it and records the PID of the daemon process; when a
\* running process holds the lock it fails and the command exits.
DaemonReborn(d) ==
  /\ dst[d] = "spawned"
  /\ IF pidOf # 0 /\ pidLock # 0
       THEN /\ dst' = [dst EXCEPT ![d] = "exited"]
            /\ UNCHANGED <<pidOf, pidLock>>
       ELSE /\ dst' = [dst EXCEPT ![d] = "reborn"]
            /\ pidOf' = d
            /\ pidLock' = d
  /\ UNCHANGED <<parseVars, snapVars, daemonVars, sockOwner, cpc, cround, cpid, cconn, args, saved, dconf, crestart, spid, backendVars, tabVars>>

\* Start: os.Remove(socketPath)
DaemonRemoveSocket(d) ==
  /\ dst[d] = "reborn"
  /\ sockOwner' = 0
  /\ dst' = [dst EXCEPT ![d] = "unlinked"]
  /\ UNCHANGED <<parseVars, snapVars, daemonVars, pidOf, pidLock, cpc, cround, cpid, cconn, args, saved, dconf, crestart, spid, backendVars, tabVars>>

\* Start: net.Listen("unix", socketPath) fails when the path exists; Start
\* returns the error and handleDaemon calls os.Exit(1).
DaemonListen(d) ==
  /\ dst[d] = "unlinked"
  /\ IF sockOwner = 0
       THEN /\ sockOwner' = d
            /\ dst' = [dst EXCEPT ![d] = "bound"]
            /\ pidLock' = pidLock
       ELSE /\ sockOwner' = sockOwner
            /\ dst' = [dst EXCEPT ![d] = "exited"]
            /\ pidLock' = IF pidLock = d THEN 0 ELSE pidLock
  /\ UNCHANGED <<parseVars, snapVars, daemonVars, pidOf, cpc, cround, cpid, cconn, args, saved, dconf, crestart, spid, backendVars, tabVars>>

\* Start: os.WriteFile(pidFile, pid) opens the file with O_CREATE and
\* O_TRUNC: the file exists and is empty.  A file created here is not the
\* one a lock is held on.
DaemonTruncatePid(d) ==
  /\ dst[d] = "bound"
  /\ pidOf' = BadPid
  /\ pidLock' = IF pidOf = 0 THEN 0 ELSE pidLock
  /\ dst' = [dst EXCEPT ![d] = "writing"]
  /\ UNCHANGED <<parseVars, snapVars, daemonVars, sockOwner, cpc, cround, cpid, cconn, args, saved, dconf, crestart, spid, backendVars, tabVars>>

\* Start: os.WriteFile writes the PID into the file it has opened; the
\* accept loop starts.
DaemonWritePid(d) ==
  /\ dst[d] \in {"writing", "writingUnlinked"}
  /\ pidOf' = IF dst[d] = "writing" THEN d ELSE pidOf
  /\ dst' = [dst EXCEPT ![d] = "serving"]
  /\ UNCHANGED <<parseVars, snapVars, daemonVars, pidLock, sockOwner, cpc, cround, cpid, cconn, args, saved, dconf, crestart, spid, backendVars, tabVars>>

\* Stop, started by the handler of a close command: close(d.shutdown) and
\* d.listener.Close(), which unlinks the socket path.
DaemonStop(d) ==
  /\ dst[d] = "stopping"
  /\ sockOwner' = 0
  /\ dst' = [dst EXCEPT ![d] = "draining"]
  /\ UNCHANGED <<parseVars, snapVars, daemonVars, pidOf, pidLock, cpc, cround, cpid, cconn, args, saved, dconf, crestart, spid, backendVars, tabVars>>

\* Stop: d.connections.Wait() returns when no connection is open; then
\* cleanup removes the PID file and the socket path, and the process exits.
DaemonExit(d) ==
  /\ dst[d] = "draining"
  /\ \A j \in Clients : cconn[j] # d
  /\ sockOwner' = 0
  /\ pidOf' = 0
  /\ pidLock' = 0
  /\ dst' = [UnlinkPidFile EXCEPT ![d] = "exited"]
  /\ UNCHANGED <<parseVars, snapVars, daemonVars, cpc, cround, cpid, cconn, args, saved, dconf, crestart, spid, backendVars, tabVars>>

ClientInvocation(k) ==
  \/ CLoadBackend(k) \/ CReadPid(k) \/ CSignal(k) \/ CStat(k)
  \/ CRemovePid(k) \/ CCheckRestart(k) \/ CStopConnect(k) \/ CStopSend(k)
  \/ CStopPoll(k) \/ CSleep(k) \/ CSave(k) \/ CStartDaemon(k) \/ CConnect(k)
  \/ CFinish(k)

DaemonProcess(d) ==
  \/ DaemonReborn(d) \/ DaemonRemoveSocket(d) \/ DaemonListen(d)
  \/ DaemonTruncatePid(d) \/ DaemonWritePid(d) \/ DaemonStop(d)
  \/ DaemonExit(d)

InitSession ==
  /\ InitSessionFiles
  /\ args \in [Clients -> ArgsUniverse]
  /\ InitDaemonVars
  /\ InitBackendIdle
  /\ InitTabVars
  /\ InitSnapshotIdle
  /\ pframe = FClose
  /\ pstage = "input"
  /\ pres = NoParse
  /\ pdisp = NoDispatch
  /\ pcmd = NoCmd

NextSession ==
  \E k \in Clients : ClientInvocation(k) \/ DaemonProcess(k)

SpecSession == InitSession /\ [][NextSession]_vars

(***************************************************************************)
(* SpecSnapshot: snapshot calls of the daemon's connection handlers, which *)
(* run in their own goroutines and share the package's refCounter.         *)
(***************************************************************************)
\* As SnapshotReset, but the counter is left as it is.
SnapshotResetSkipped(c) ==
  /\ snapPc[c] = "idle"
  /\ refCounter' = refCounter
  /\ todo' = [todo EXCEPT ![c] = PlannedLines(snapIn[c])]
  /\ snapPc' = [snapPc EXCEPT ![c] = "build"]
  /\ UNCHANGED <<parseVars, daemonVars, sessionVars, snapIn, outline, refs, roleNameCounts, backendVars, tabVars>>

\* BuildSnapshotFromNodes / processAriaTree: resetRefs(); refs and
\* roleNameCounts are made.
SnapshotReset(c) ==
  /\ snapPc[c] = "idle"
  /\ refCounter' = 0
  /\ todo' = [todo EXCEPT ![c] = PlannedLines(snapIn[c])]
  /\ snapPc' = [snapPc EXCEPT ![c] = "build"]
  /\ UNCHANGED <<parseVars, daemonVars, sessionVars, snapIn, outline, refs, roleNameCounts, backendVars, tabVars>>

\* One node or line: for one with a ref, ref = nextRef() (refCounter.Add(1)),
\* nth = roleNameCounts[key], roleNameCounts[key]++, refs[ref] = RefData;
\* then the line is written.
SnapshotLine(c) ==
  /\ snapPc[c] = "build"
  /\ todo[c] # <<>>
  /\ LET p == Head(todo[c])
         key == <<p.role, p.name>>
         nth == CountOf(roleNameCounts[c], key)
     IN IF p.hasRef
          THEN /\ refCounter' = refCounter + 1
               /\ roleNameCounts' =
                    [roleNameCounts EXCEPT ![c] =
                       [x \in DOMAIN @ \cup {key} |->
                          IF x = key THEN nth + 1 ELSE @[x]]]
               /\ refs' = [refs EXCEPT ![c] =
                             PutRef(@, refCounter + 1,
                                    RefData(p.role, p.name, nth))]
               /\ outline' = [outline EXCEPT ![c] =
                                Append(@, WriteLine(p, refCounter + 1, nth))]
          ELSE /\ outline' = [outline EXCEPT ![c] =
                                Append(@, WriteLine(p, 0, 0))]
               /\ UNCHANGED <<refCounter, roleNameCounts, refs>>
  /\ todo' = [todo EXCEPT ![c] = Tail(@)]
  /\ UNCHANGED <<parseVars, daemonVars, sessionVars, snapIn, snapPc, backendVars, tabVars>>

\* return &EnhancedSnapshot{Tree: ..., Refs: refs}
SnapshotReturn(c) ==
  /\ snapPc[c] = "build"
  /\ todo[c] = <<>>
  /\ snapPc' = [snapPc EXCEPT ![c] = "done"]
  /\ UNCHANGED <<parseVars, daemonVars, sessionVars, refCounter, snapIn, todo, outline, refs, roleNameCounts, backendVars, tabVars>>

SnapshotCall(c) == SnapshotReset(c) \/ SnapshotLine(c) \/ SnapshotReturn(c)

InitSnapshot ==
  /\ InitSnapVars
  /\ snapIn \in { f \in [SnapCalls -> InputUniverse] :
                    \A c \in SnapCalls : c > 1 => f[c] \in OtherInputs }
  /\ InitDaemonVars
  /\ InitBackendIdle
  /\ InitTabVars
  /\ InitSessionVars
  /\ pframe = FClose
  /\ pstage = "input"
  /\ pres = NoParse
  /\ pdisp = NoDispatch
  /\ pcmd = NoCmd

NextSnapshot == \E c \in SnapCalls : SnapshotCall(c)

SpecSnapshot == InitSnapshot /\ [][NextSnapshot]_vars

(***************************************************************************)
(* SpecBackend: the connection handlers of one daemon, each in its own     *)
(* goroutine, taking launch, close, snapshot and click commands to the one *)
(* backend object.                                                         *)
(***************************************************************************)
\* handleLaunch answers with the error of Launch, handleClose with that of
\* Close, which is always nil; the automatic Launch of handleConnection
\* drops its error.
LaunchResult(g, ok) ==
  IF gop[g].action = "launch" THEN [gres EXCEPT ![g].ok = ok] ELSE gres

CloseResult(g) ==
  IF gop[g].action = "close" THEN [gres EXCEPT ![g].ok = TRUE] ELSE gres

\* A handler has parsed a command.
BBegin(g, op) ==
  /\ gpc[g] = "idle"
  /\ nops < MaxOps
  /\ nops' = nops + 1
  /\ gop' = [gop EXCEPT ![g] = op]
  /\ gres' = [gres EXCEPT ![g] = NoResult]
  /\ gseen' = [gseen EXCEPT ![g] = <<>>]
  /\ gpc' = [gpc EXCEPT ![g] = "chk"]
  /\ UNCHANGED <<parseVars, daemonVars, sessionVars, snapVars, tabVars, bkind, bLaunched, bHeadless, launches, refMap, refLock, gafterLaunch, gafterClose>>

\* handleConnection: action != "launch" && action != "close" &&
\* !d.browser.IsLaunched(): Launch is called, and ExecuteCommand after it.
BCheckLaunch(g) ==
  /\ gpc[g] = "chk"
  /\ IF gop[g].action \notin {"launch", "close"} /\ ~bLaunched
       THEN /\ gpc' = [gpc EXCEPT ![g] = "launchLoad"]
            /\ gafterLaunch' = [gafterLaunch EXCEPT ![g] = FirstPos(gop[g])]
       ELSE /\ gpc' = [gpc EXCEPT ![g] = FirstPos(gop[g])]
            /\ gafterLaunch' = [gafterLaunch EXCEPT ![g] = "ret"]
  /\ UNCHANGED <<parseVars, daemonVars, sessionVars, snapVars, tabVars, bkind, bLaunched, bHeadless, launches, refMap, refLock, gop, gres, gseen, gafterClose, nops>>

\* Launch: if b.launched.Load(): Close() first when the headless setting
\* differs, return nil when it is the same.
BLaunchLoad(g) ==
  /\ gpc[g] = "launchLoad"
  /\ IF bLaunched
       THEN IF bHeadless # LaunchHeadless(g)
              THEN /\ gpc' = [gpc EXCEPT ![g] = "closeLoad"]
                   /\ gafterClose' = [gafterClose EXCEPT ![g] = "launchRun"]
                   /\ gres' = gres
              ELSE /\ gpc' = [gpc EXCEPT ![g] = gafterLaunch[g]]
                   /\ gres' = LaunchResult(g, TRUE)
                   /\ gafterClose' = gafterClose
       ELSE /\ gpc' = [gpc EXCEPT ![g] = "launchRun"]
            /\ UNCHANGED <<gres, gafterClose>>
  /\ UNCHANGED <<parseVars, daemonVars, sessionVars, snapVars, tabVars, bkind, bLaunched, bHeadless, launches, refMap, refLock, gop, gseen, gafterLaunch, nops>>

\* Launch: b.headless = opts.Headless; the browser is started.  When that
\* fails, ChromeDPBackend calls Close() and returns the error, and
\* PlaywrightBackend returns the error.
BLaunchRun(g) ==
  /\ gpc[g] = "launchRun"
  /\ bHeadless' = LaunchHeadless(g)
  /\ \E started \in BOOLEAN :
       IF started
         THEN /\ launches' = launches + 1
              /\ gpc' = [gpc EXCEPT ![g] = "launchStore"]
              /\ UNCHANGED <<gres, gafterClose>>
         ELSE /\ launches' = launches
              /\ gres' = LaunchResult(g, FALSE)
              /\ IF bkind = "chromedp"
                   THEN /\ gpc' = [gpc EXCEPT ![g] = "closeLoad"]
                        /\ gafterClose' =
                             [gafterClose EXCEPT ![g] = gafterLaunch[g]]
                   ELSE /\ gpc' = [gpc EXCEPT ![g] = gafterLaunch[g]]
                        /\ gafterClose' = gafterClose
  /\ UNCHANGED <<parseVars, daemonVars, sessionVars, snapVars, tabVars, bkind, bLaunched, refMap, refLock, gop, gseen, gafterLaunch, nops>>

\* Launch: b.launched.Store(true); return nil
BLaunchStore(g) ==
  /\ gpc[g] = "launchStore"
  /\ bLaunched' = TRUE
  /\ gres' = LaunchResult(g, TRUE)
  /\ gpc' = [gpc EXCEPT ![g] = gafterLaunch[g]]
  /\ UNCHANGED <<parseVars, daemonVars, sessionVars, snapVars, tabVars, bkind, bHeadless, launches, refMap, refLock, gop, gseen, gafterLaunch, gafterClose, nops>>

\* Close: if !b.launched.Load() { return nil }
BCloseLoad(g) ==
  /\ gpc[g] = "closeLoad"
  /\ IF bLaunched
       THEN /\ gpc' = [gpc EXCEPT ![g] = "closeCancel"]
            /\ gres' = gres
       ELSE /\ gpc' = [gpc EXCEPT ![g] = gafterClose[g]]
            /\ gres' = CloseResult(g)
  /\ UNCHANGED <<parseVars, daemonVars, sessionVars, snapVars, tabVars, bkind, bLaunched, bHeadless, launches, refMap, refLock, gop, gseen, gafterLaunch, gafterClose, nops>>

\* Close: the contexts are cancelled (the pages, the context and the
\* browser are closed), b.launched.Store(false), the tabs are dropped.
\* PlaywrightBackend.Close returns here.
BCloseCancel(g) ==
  /\ gpc[g] = "closeCancel"
  /\ bLaunched' = FALSE
  /\ launches' = 0
  /\ IF bkind = "chromedp"
       THEN /\ gpc' = [gpc EXCEPT ![g] = "closeClear"]
            /\ gres' = gres
       ELSE /\ gpc' = [gpc EXCEPT ![g] = gafterClose[g]]
            /\ gres' = CloseResult(g)
  /\ UNCHANGED <<parseVars, daemonVars, sessionVars, snapVars, tabVars, bkind, bHeadless, refMap, refLock, gop, gseen, gafterLaunch, gafterClose, nops>>

\* ChromeDPBackend.Close: b.refMap = make(RefMap); return nil
BCloseClear(g) ==
  /\ gpc[g] = "closeClear"
  /\ refMap' = <<>>
  /\ gres' = CloseResult(g)
  /\ gpc' = [gpc EXCEPT ![g] = gafterClose[g]]
  /\ UNCHANGED <<parseVars, daemonVars, sessionVars, snapVars, tabVars, bkind, bLaunched, bHeadless, launches, refLock, gop, gseen, gafterLaunch, gafterClose, nops>>

\* GetSnapshot up to the update of the ref map: the page is read (an error
\* is returned when there is no launched browser to read it from) and the
\* snapshot is built.  PlaywrightBackend returns an EnhancedSnapshot with an
\* empty Refs at once when the ARIA text is "".
BSnapEval(g) ==
  /\ gpc[g] = "snapEval"
  /\ IF ~bLaunched
       THEN /\ gres' = [gres EXCEPT ![g] = NoResult]
            /\ gpc' = [gpc EXCEPT ![g] = "ret"]
       ELSE IF bkind = "playwright" /\ gop[g].page.lines = <<>>
         THEN /\ gres' = [gres EXCEPT ![g] = [NoResult EXCEPT !.ok = TRUE]]
              /\ gpc' = [gpc EXCEPT ![g] = "ret"]
         ELSE /\ gres' = [gres EXCEPT ![g] =
                            [NoResult EXCEPT
                               !.refs = SnapshotRefs(gop[g].page)]]
              /\ gpc' = [gpc EXCEPT ![g] = "snapLock"]
  /\ UNCHANGED <<parseVars, daemonVars, sessionVars, snapVars, tabVars, bkind, bLaunched, bHeadless, launches, refMap, refLock, gop, gseen, gafterLaunch, gafterClose, nops>>

\* b.refLock.Lock()
BSnapLock(g) ==
  /\ gpc[g] = "snapLock"
  /\ refLock.w = 0
  /\ refLock.r = {}
  /\ refLock' = [refLock EXCEPT !.w = g]
  /\ gpc' = [gpc EXCEPT ![g] = "snapStore"]
  /\ UNCHANGED <<parseVars, daemonVars, sessionVars, snapVars, tabVars, bkind, bLaunched, bHeadless, launches, refMap, gop, gres, gseen, gafterLaunch, gafterClose, nops>>

\* b.refMap = snapshot.Refs; b.refLock.Unlock(); return snapshot, nil
BSnapStore(g) ==
  /\ gpc[g] = "snapStore"
  /\ refMap' = gres[g].refs
  /\ refLock' = [refLock EXCEPT !.w = 0]
  /\ gres' = [gres EXCEPT ![g].ok = TRUE]
  /\ gpc' = [gpc EXCEPT ![g] = "ret"]
  /\ UNCHANGED <<parseVars, daemonVars, sessionVars, snapVars, tabVars, bkind, bLaunched, bHeadless, launches, gop, gseen, gafterLaunch, gafterClose, nops>>

\* resolveSelector: ref := ParseRef(selector); a selector that is not a
\* ref is returned without a look at the ref map.
BResParse(g) ==
  /\ gpc[g] = "resParse"
  /\ IF ParseRef(gop[g].selector) = <<>>
       THEN /\ gres' = [gres EXCEPT ![g] =
                          [ok |-> TRUE, refs |-> <<>>,
                           selector |->
                             resolveSelector(gop[g].selector, refMap)]]
            /\ gseen' = [gseen EXCEPT ![g] = refMap]
            /\ gpc' = [gpc EXCEPT ![g] = "ret"]
       ELSE /\ gpc' = [gpc EXCEPT ![g] = "resRLock"]
            /\ UNCHANGED <<gres, gseen>>
  /\ UNCHANGED <<parseVars, daemonVars, sessionVars, snapVars, tabVars, bkind, bLaunched, bHeadless, launches, refMap, refLock, gop, gafterLaunch, gafterClose, nops>>

\* b.refLock.RLock()
BResRLock(g) ==
  /\ gpc[g] = "resRLock"
  /\ refLock.w = 0
  /\ refLock' = [refLock EXCEPT !.r = @ \cup {g}]
  /\ gpc' = [gpc EXCEPT ![g] = "resLookup"]
  /\ UNCHANGED <<parseVars, daemonVars, sessionVars, snapVars, tabVars, bkind, bLaunched, bHeadless, launches, refMap, gop, gres, gseen, gafterLaunch, gafterClose, nops>>

\* info, ok := b.refMap[ref]; the deferred RUnlock; the selector goes to
\* the engine.
BResLookup(g) ==
  /\ gpc[g] = "resLookup"
  /\ gres' = [gres EXCEPT ![g] =
                [ok |-> TRUE, refs |-> <<>>,
                 selector |-> resolveSelector(gop[g].selector, refMap)]]
  /\ gseen' = [gseen EXCEPT ![g] = refMap]
  /\ refLock' = [refLock EXCEPT !.r = @ \ {g}]
  /\ gpc' = [gpc EXCEPT ![g] = "ret"]
  /\ UNCHANGED <<parseVars, daemonVars, sessionVars, snapVars, tabVars, bkind, bLaunched, bHeadless, launches, refMap, gop, gafterLaunch, gafterClose, nops>>

\* d.writeResponse(conn, resp); the handler reads its next frame.
BReturn(g) ==
  /\ gpc[g] = "ret"
  /\ gpc' = [gpc EXCEPT ![g] = "idle"]
  /\ UNCHANGED <<parseVars, daemonVars, sessionVars, snapVars, tabVars, bkind, bLaunched, bHeadless, launches, refMap, refLock, gop, gres, gseen, gafterLaunch, gafterClose, nops>>

BackendHandler(g) ==
  \/ \E op \in BackendOps(bkind) : BBegin(g, op)
  \/ BCheckLaunch(g) \/ BLaunchLoad(g) \/ BLaunchRun(g) \/ BLaunchStore(g)
  \/ BCloseLoad(g) \/ BCloseCancel(g) \/ BCloseClear(g)
  \/ BSnapEval(g) \/ BSnapLock(g) \/ BSnapStore(g)
  \/ BResParse(g) \/ BResRLock(g) \/ BResLookup(g)
  \/ BReturn(g)

InitBackend ==
  /\ bkind \in {"chromedp", "playwright"}
  /\ InitBackendObject
  /\ InitDaemonVars
  /\ InitTabVars
  /\ InitSessionVars
  /\ InitSnapshotIdle
  /\ pframe = FClose
  /\ pstage = "input"
  /\ pres = NoParse
  /\ pdisp = NoDispatch
  /\ pcmd = NoCmd

NextBackend == \E g \in Conns : BackendHandler(g)

SpecBackend == InitBackend /\ [][NextBackend]_vars

(***************************************************************************)
(* SpecTabs: tab_new, tab_switch and tab_close commands, one after the     *)
(* other, on a launched backend.  A tab is known by the number of its      *)
(* target (ChromeDPBackend) or page (PlaywrightBackend).                   *)
(***************************************************************************)
TabIndexes == (0 - 1)..MaxTargets

\* NewTab: the target is created (or not: the error is returned and nothing
\* changes), appended and made active; the navigation to a URL can fail
\* after that.
NewTab ==
  /\ nextTarget <= MaxTargets + 1
  /\ \E created \in BOOLEAN, navigated \in BOOLEAN :
       IF created
         THEN /\ targets' = Append(targets, nextTarget)
              /\ activeTab' = Len(targets)
              /\ nextTarget' = nextTarget + 1
              /\ tabOp' = [op |-> "new", index |-> Len(targets),
                           ok |-> navigated]
         ELSE /\ tabOp' = [op |-> "new", index |-> 0, ok |-> FALSE]
              /\ UNCHANGED <<targets, activeTab, nextTarget>>
  /\ UNCHANGED <<parseVars, daemonVars, sessionVars, snapVars, backendVars>>

\* SwitchTab(index)
SwitchTab(index) ==
  /\ IF index < 0 \/ index >= Len(targets)
       THEN /\ tabOp' = [op |-> "switch", index |-> index, ok |-> FALSE]
            /\ activeTab' = activeTab
       ELSE /\ tabOp' = [op |-> "switch", index |-> index, ok |-> TRUE]
            /\ activeTab' = index
  /\ UNCHANGED <<parseVars, daemonVars, sessionVars, snapVars, backendVars, targets, nextTarget>>

\* The index handleTabClose closes: that of the tab ListTabs reports as
\* active (0 when none is), or *cmd.Index when the command has one.
TabCloseIndex(given, index) ==
  IF given THEN index
  ELSE IF activeTab < Len(targets) THEN activeTab
  ELSE 0

\* targets[:index] ++ targets[index+1:], index from 0.
RemoveAt(seq, index) ==
  SubSeq(seq, 1, index) \o SubSeq(seq, index + 2, Len(seq))

\* CloseTab(index): the tab is closed and removed from the list; the active
\* index is changed only when it is beyond the end of the list.
CloseTab(index) ==
  /\ IF index < 0 \/ index >= Len(targets)
       THEN /\ tabOp' = [op |-> "close", index |-> index, ok |-> FALSE]
            /\ UNCHANGED <<targets, activeTab>>
       ELSE /\ tabOp' = [op |-> "close", index |-> index, ok |-> TRUE]
            /\ targets' = RemoveAt(targets, index)
            /\ LET a == IF activeTab >= Len(targets')
                          THEN Len(targets') - 1 ELSE activeTab
               IN activeTab' = IF a < 0 THEN 0 ELSE a
  /\ UNCHANGED <<parseVars, daemonVars, sessionVars, snapVars, backendVars, nextTarget>>

\* handleTabClose
TabClose == \E given \in BOOLEAN, index \in TabIndexes :
              CloseTab(TabCloseIndex(given, index))

TabSwitch == \E index \in TabIndexes : SwitchTab(index)

InitTabs ==
  /\ InitTabVars
  /\ InitBackendIdle
  /\ InitDaemonVars
  /\ InitSessionVars
  /\ InitSnapshotIdle
  /\ pframe = FClose
  /\ pstage = "input"
  /\ pres = NoParse
  /\ pdisp = NoDispatch
  /\ pcmd = NoCmd

NextTabs == NewTab \/ TabSwitch \/ TabClose

SpecTabs == InitTabs /\ [][NextTabs]_vars

(***************************************************************************)
(* Properties of ParseCommand and ExecuteCommand, checked under SpecParse.  *)
(***************************************************************************)
Parsed == pstage # "input"

\* C7: ParseCommand returns an error for a frame with a recognized action
\* that omits a field the action requires: navigate without url, click
\* without selector.
C7_MissingRequiredFieldRejected ==
  (/\ Parsed
   /\ pframe.wf /\ pframe.typed /\ pframe.id # ""
   /\ \/ pframe.action = "navigate" /\ pframe.url = ""
      \/ pframe.action = "click" /\ pframe.selector = "")
    => ~pres.ok

\* C8: ParseCommand returns an error and no command for every input whose
\* id is absent or empty or whose action is absent or empty, whatever the
\* other fields are.
C8_MissingIdOrActionRejected ==
  (Parsed /\ (pframe.id = "" \/ pframe.action = ""))
    => (~pres.ok /\ pres.err # "" /\ pres.cmd = NoCmd)

C8_Witness ==
  /\ pstage = "parsed"
  /\ pframe.wf /\ pframe.id = "" /\ pframe.action = "navigate"
  /\ pframe.url # ""
  /\ ~pres.ok /\ pres.cmd = NoCmd

\* C9: no command is handled by a dispatch-time default: an action outside
\* the action table is rejected by ParseCommand as an unknown action, and
\* every command ParseCommand accepts reaches a handler of ExecuteCommand.
C9_NoDispatchTimeDefault ==
  /\ (Parsed /\ pframe.wf /\ pframe.id # "" /\ pframe.action # ""
        /\ pframe.action \notin ParseActions)
       => (~pres.ok /\ pres.err = "unknown action")
  /\ pstage = "dispatched" => pdisp.handler = pres.cmd.action

(***************************************************************************)
(* Properties of the daemon, checked under Spec.                           *)
(***************************************************************************)
\* The frame that response k of connection c answers.
FrameOf(c, k) == sent[c][outbox[c][k].seq]

\* C2: on one connection every frame read gets exactly one response, the
\* response is written before the next frame is read, and the responses
\* are in the order of the requests.
C2_OneResponsePerFrameInOrder ==
  \A c \in Conns :
    /\ Len(outbox[c]) <= nread[c]
    /\ nread[c] <= Len(outbox[c]) + 1
    /\ hpc[c] \in {"read", "sleep", "done"} => Len(outbox[c]) = nread[c]
    /\ \A k \in 1..Len(outbox[c]) : outbox[c][k].seq = k

\* Two frames with different ids were sent on one connection and both
\* have been answered, in the order they were sent.
C2_Witness ==
  \E c \in Conns :
    /\ Len(sent[c]) = 2 /\ nread[c] = 2 /\ Len(outbox[c]) = 2
    /\ outbox[c][1].seq = 1 /\ outbox[c][2].seq = 2
    /\ outbox[c][1].resp.id = sent[c][1].id
    /\ outbox[c][2].resp.id = sent[c][2].id
    /\ sent[c][1].id # sent[c][2].id

\* C3: after the daemon has answered a close command it goes on to close
\* the engine, remove the artifacts and terminate whatever other
\* connections are open: as long as it has not terminated, one of its
\* goroutines can take a step without any client doing anything.
C3_CloseTerminatesDaemon ==
  (closeAnswered /\ proc = "running") => ENABLED DaemonStep

\* C4: once the response to a close command is written, a connection
\* attempt of a new client fails, and the daemon reads no frame from it.
C4_NoConnectionAfterClose ==
  \A c \in Conns :
    lateDial[c] => (cstate[c] = "refused" /\ nread[c] = 0)

\* C5: no failure while handling one command terminates the daemon.
C5_HandlerFailureKeepsDaemon == proc # "crashed"

\* C6: a frame that fails ParseCommand is answered with success=false and
\* the connection stays open: the handler returns only on end of input or
\* after a close command, and otherwise waits for the next frame on the
\* open connection.
C6_ParseFailureKeepsConnection ==
  \A c \in Conns :
    /\ \A k \in 1..Len(outbox[c]) :
         ~ParseCommand(FrameOf(c, k)).ok
           => (~outbox[c][k].resp.success /\ outbox[c][k].resp.error # "")
    /\ (proc = "running" /\ hpc[c] = "read") => cstate[c] = "open"
    /\ hpc[c] = "done" =>
         \/ ~clientOpen[c] /\ nread[c] = Len(sent[c])
         \/ nread[c] > 0 /\ CurCmd(c).action = "close"

\* A frame that failed to parse was answered, and the valid frame sent
\* after it on the same connection was dispatched and answered.
C6_Witness ==
  \E c \in Conns :
    /\ Len(outbox[c]) = 2
    /\ ~ParseCommand(sent[c][1]).ok
    /\ ~outbox[c][1].resp.success
    /\ ParseCommand(sent[c][2]).ok
    /\ outbox[c][2].seq = 2
    /\ outbox[c][2].resp.success
    /\ outbox[c][2].resp.id = sent[c][2].id

\* C10: every response carries the id of the request frame that caused it,
\* also when the frame carries an id and is rejected.
C10_ResponseEchoesRequestId ==
  \A c \in Conns :
    \A k \in 1..Len(outbox[c]) :
      FrameOf(c, k).wf => outbox[c][k].resp.id = FrameOf(c, k).id

(***************************************************************************)
(* Properties of the session start-up, checked under SpecSession.          *)
(***************************************************************************)
\* C1: at any time at most one live daemon process serves the session,
\* whatever the interleaving of the client invocations, the daemons' Start
\* and IsDaemonRunning's removal of PID files.
C1_AtMostOneLiveDaemon ==
  Cardinality({d \in Clients : Listening(d)}) <= 1

\* C11: in every Response exactly one of data and error is populated: data
\* and no error when success is true, error and no data when it is false.
C11_ExactlyOneOfDataAndError ==
  (pstage = "dispatched" /\ ~pdisp.panic) =>
    IF pdisp.resp.success
      THEN pdisp.resp.data # "" /\ pdisp.resp.error = ""
      ELSE pdisp.resp.error # "" /\ pdisp.resp.data = ""

StopPerformers ==
  { c \in StopCallers :
      stopPc[c] \in {"closeListener", "wait", "closeBrowser", "cleanup",
                     "exit", "exited"} }

\* C13: however many times Stop is invoked (after a close command, after a
\* signal, concurrently or one after the other), the shutdown steps (close
\* d.shutdown, close the listener, close the engine, remove the files) are
\* run by at most one invocation, each once; a step of any invocation taken
\* once d.shutdown is closed, other than those of the performing one,
\* changes nothing of the daemon.
C13_StopStepsAtMostOnce ==
  /\ [](Cardinality(StopPerformers) <= 1)
  /\ [][\A c \in StopCallers :
          (stopPc[c] = "enter" /\ stopPc'[c] # "enter" /\ shutdown) =>
            UNCHANGED <<proc, shutdown, listener, sockFile, pidFile,
                        launched, wg>>]_vars
  /\ [][(shutdown /\ ~shutdown') => FALSE]_vars
  /\ [][(listener = "closed") => (listener' = "closed")]_vars

\* Three invocations of Stop, from two close commands and from a signal: one
\* is past the listener's close, the others have not got past Stop's entry.
C13_Witness ==
  /\ \A c \in StopCallers : stopPc[c] # "none"
  /\ \E c \in StopCallers :
       /\ stopPc[c] \in {"wait", "closeBrowser", "cleanup", "exit"}
       /\ \A k \in StopCallers \ {c} : stopPc[k] = "enter"
  /\ listener = "closed"

(***************************************************************************)
(* Properties of IsDaemonRunning, checked under SpecSession.               *)
(***************************************************************************)
\* C14: IsDaemonRunning returns true only if it found the PID file, the
\* process recorded in it alive and the socket file; whenever it found a
\* PID file and returns false, the PID file does not exist when it returns.
C14_IsDaemonRunningRemovesStalePid ==
  [][\A k \in Clients :
       /\ (/\ cpc[k] = "stat"
           /\ cpc'[k] \in {"checkRestart", "stopConnect", "connect"}) =>
            (cpid[k] \in Clients /\ sockOwner # 0)
       /\ (cpc[k] = "signal" /\ cpc'[k] = "stat") => Alive(cpid[k])
       /\ (cpc[k] = "rmPid" /\ cpc'[k] # "rmPid") => pidOf' = 0
       /\ (/\ cpc[k] = "readPid"
           /\ pidOf # 0
           /\ cpc'[k] # "signal"
           /\ cpc'[k] # "readPid" \/ cround'[k] # cround[k]) =>
            pidOf' = 0]_vars

(***************************************************************************)
(* Properties of the restart check of main, checked under SpecSession.     *)
(***************************************************************************)
\* The invocation asks for a backend with --backend or for a user-data
\* directory, and has found that the running daemon must be restarted.
RestartsForConfig(k) ==
  crestart[k] /\ (args[k].backendSpecified \/ args[k].userDataDir # "")

\* C15: when a daemon runs with saved backend A and a command asks for a
\* backend B # A (or for another, non-empty user-data directory), the old
\* daemon is stopped before the new one is started, and the command is
\* delivered to a daemon configured with B, never to the old one.
C15_RestartOnBackendChange ==
  /\ [](\A k \in Clients :
          (RestartsForConfig(k) /\ cpc[k] = "connected") =>
             /\ dconf[cconn[k]].backend = args[k].backend
             /\ args[k].userDataDir # "" =>
                  dconf[cconn[k]].userDataDir = args[k].userDataDir
             /\ cconn[k] # spid[k])
  /\ [][\A k \in Clients :
          (/\ RestartsForConfig(k)
           /\ cpc[k] = "startDaemon" /\ cpc'[k] = "connect"
           /\ spid[k] # 0) => ~Alive(spid[k])]_vars

\* The invocation differs from what is saved in the headed flag only: no
\* backend was asked for that differs from the saved one, and no user-data
\* directory that differs from the saved one.
HeadedDiffers(k) ==
  /\ args[k].headed # saved.headed
  /\ ~(args[k].backendSpecified /\ GetSessionBackend # args[k].backend)
  /\ ~(args[k].userDataDir # "" /\ saved.userDataDir # args[k].userDataDir)

\* C16: a difference between the requested headed flag and the saved one
\* makes the client stop and restart the running daemon only when the
\* command is open or launch; with any other command the client does not
\* enter StopDaemon, the daemon is left as it is and the saved preferences
\* are unchanged.
C16_HeadedRestartsOnlyLaunchCommands ==
  /\ [][\A k \in Clients :
          (cpc[k] = "checkRestart" /\ cpc'[k] # "checkRestart"
             /\ HeadedDiffers(k)) =>
            /\ crestart'[k] = (args[k].command \in LaunchCommands)
            /\ args[k].command \notin LaunchCommands =>
                 (cround'[k] = 3 /\ dst' = dst /\ saved' = saved)]_vars
  /\ [](\A k \in Clients :
          (/\ args[k].command \notin LaunchCommands
           /\ ~args[k].backendSpecified
           /\ args[k].userDataDir = "") =>
            (~crestart[k] /\ cround[k] # 2))

\* A snapshot command with --headed has found the daemon of the other
\* invocation running with the headless preference saved, and is connected
\* to it without a restart.
C16_Witness ==
  \E k \in Clients :
    /\ args[k].command = "snapshot" /\ args[k].headed /\ ~saved.headed
    /\ cpc[k] = "connected" /\ cconn[k] # k
    /\ dst[cconn[k]] = "serving"
    /\ dst[k] = "unborn"
    /\ ~crestart[k]

(***************************************************************************)
(* Properties of the automatic launch in handleConnection, checked under   *)
(* Spec.                                                                   *)
(***************************************************************************)
\* C17: whenever a command other than launch or close is about to be given
\* to ExecuteCommand, the engine is launched (the handler has launched it
\* first when it was not).
C17_EngineLaunchedAtDispatch ==
  \A c \in Conns :
    (hpc[c] = "exec" /\ CurCmd(c).action \notin {"launch", "close"}) =>
      launched

(***************************************************************************)
(* Properties of the snapshot builders, checked under SpecSnapshot.        *)
(***************************************************************************)
\* The lines of a call's outline that show a [ref=eN], in order, and the N
\* of such a line.
RefLines(c) == SelectSeq(outline[c], LAMBDA l : l.tags # <<>>)

RefOf(l) == l.tags[1][2]

\* C18: within each snapshot call the ref ids are e1, e2, ... in traversal
\* order, unique and without gaps, also when the calls of several
\* connections overlap.
C18_RefsSequentialPerCall ==
  \A c \in SnapCalls :
    \A i \in 1..Len(RefLines(c)) : RefOf(RefLines(c)[i]) = i

\* C19: for every snapshot of either builder and any options, the ref ids
\* shown as [ref=eN] in the outline are exactly the keys of the ref table.
C19_OutlineRefsAreTableKeys ==
  \A c \in SnapCalls :
    { RefOf(RefLines(c)[i]) : i \in 1..Len(RefLines(c)) } = DOMAIN refs[c]

\* A processAriaTree call has returned an outline with two refs and lines
\* without one, and a BuildSnapshotFromNodes call with refs has returned.
C19_Witness ==
  /\ snapPc[1] = "done" /\ snapIn[1].kind = "aria"
  /\ Len(RefLines(1)) = 2 /\ Len(outline[1]) > 2
  /\ snapPc[2] = "done" /\ snapIn[2].kind = "nodes"
  /\ Len(RefLines(2)) = 2

\* C20: in one snapshot the k-th node (from 0) among the nodes with a ref
\* that share a lowered role and a name has RefData.nth = k, and its line
\* shows [nth=k] exactly when k > 0.
C20_NthCountsEarlierSameRoleName ==
  \A c \in SnapCalls :
    \A i \in 1..Len(RefLines(c)) :
      LET l == RefLines(c)[i]
          k == Cardinality({ j \in 1..(i - 1) :
                 /\ ToLower(RefLines(c)[j].role) = ToLower(l.role)
                 /\ RefLines(c)[j].name = l.name })
      IN /\ refs[c][RefOf(l)].nth = k
         /\ (Len(l.tags) = 2) <=> (k > 0)
         /\ k > 0 => l.tags[2] = <<"nth", k>>

(***************************************************************************)
(* Properties of the backend's ref table and of Launch, checked under      *)
(* SpecBackend.                                                            *)
(***************************************************************************)
\* C21: when GetSnapshot returns successfully, the backend's ref table is
\* exactly the Refs of the snapshot it returns, so that refs of earlier
\* snapshots no longer resolve and an empty Refs leaves no ref resolvable.
C21_RefTableIsReturnedRefs ==
  [][\A g \in Conns :
       (/\ gop[g].action = "snapshot"
        /\ gpc[g] # "ret" /\ gpc'[g] = "ret"
        /\ gres'[g].ok)
         => refMap' = gres'[g].refs]_vars

\* The refs X for which the selector has one of the forms @X, ref=X, or is
\* itself X = e<digits>.
RefForms(sel) ==
  (IF sel # <<>> /\ sel[1] \in {"@", "ref="} THEN {Tail(sel)} ELSE {})
  \cup
  (IF /\ Len(sel) >= 2
      /\ sel[1] = "e"
      /\ \A i \in 2..Len(sel) : sel[i] \in Digits
     THEN {sel} ELSE {})

\* C22: resolveSelector returns the selector stored under the ref of a
\* selector of the form @X, ref=X or e<digits> when the ref table it reads
\* has it; it returns an unknown or stale ref, and a selector of no ref
\* form, unchanged, and raises no error.
C22_ResolveSelectorFallsBack ==
  \A g \in Conns :
    (gpc[g] = "ret" /\ gop[g].action = "click") =>
      LET sel == gop[g].selector
          known == { X \in RefForms(sel) : X \in DOMAIN gseen[g] }
      IN /\ gres[g].ok
         /\ \A X \in known : gres[g].selector = gseen[g][X].selector
         /\ known = {} => gres[g].selector = sel

\* A click on ref=e2 has been resolved to the stored selector of e2, and a
\* click on the unknown @e9 has been left as it is while the table had
\* entries.
C22_Witness ==
  /\ gpc[1] = "ret" /\ gop[1].selector = <<"ref=", "e", "2">>
  /\ gres[1].selector = buildSelector("button", "OK")
  /\ gpc[2] = "ret" /\ gop[2].selector = <<"@", "e", "9">>
  /\ gres[2].selector = <<"@", "e", "9">>
  /\ DOMAIN gseen[2] # {}

\* C25: between two closes at most one Launch starts a browser, also when
\* several connections send their first command at the same time.
C25_EngineLaunchedOnce == launches <= 1

\* C26: the ref table is read only under the read lock and written only
\* under the write lock, so that no write to it, from GetSnapshot or from
\* Close, overlaps an access by the handler of another connection.
C26_RefTableAccessUnderLock ==
  /\ \A g \in Conns : gpc[g] \in ReadPositions => g \in refLock.r
  /\ \A g \in Conns : gpc[g] \in WritePositions => refLock.w = g
  /\ \A g \in Conns, h \in Conns :
       (g # h /\ gpc[g] \in WritePositions) =>
         gpc[h] \notin (ReadPositions \cup WritePositions)

(***************************************************************************)
(* Properties of the tabs, checked under SpecTabs.                         *)
(***************************************************************************)
\* The tab the active index designates, 0 when it designates none.
ActiveTarget ==
  IF activeTab + 1 \in DOMAIN targets THEN targets[activeTab + 1] ELSE 0

\* C30: after any sequence of NewTab, SwitchTab and CloseTab, a CloseTab of
\* a tab other than the active one leaves the same tab active.
C30_CloseOtherKeepsActive ==
  [][(/\ tabOp'.op = "close" /\ tabOp'.ok
      /\ ActiveTarget # 0
      /\ tabOp'.index # activeTab)
        => ActiveTarget' = ActiveTarget]_vars

(***************************************************************************)
(* Properties of the shutdown, checked under Spec.                         *)
(***************************************************************************)
\* An invocation of Stop is past its d.browser.Close().
EngineClosedByStop ==
  \E s \in StopCallers : stopPc[s] \in {"cleanup", "exit", "exited"}

\* C23: Stop closes the engine only when every connection handler has
\* finished, and after that no handler launches the engine or dispatches a
\* command to it, also not the handler of a connection that Accept
\* returned just before the listener was closed.
C23_NoEngineUseAfterStopClosedIt ==
  /\ [][(\E s \in StopCallers :
           stopPc[s] = "closeBrowser" /\ stopPc'[s] = "cleanup")
          => \A c \in Conns : hpc[c] \in {"none", "done"}]_vars
  /\ [][EngineClosedByStop =>
          \A c \in Conns :
            /\ ~(hpc[c] = "launch" /\ hpc'[c] = "exec")
            /\ ~(hpc[c] = "exec" /\ (hpc'[c] = "write" \/ proc' = "crashed"))
       ]_vars

\* C24: after a shutdown the process has exited only with the engine
\* closed and the PID file and the socket removed, however Stop and the
\* main goroutine returning from Wait interleave.
C24_ExitOnlyAfterTeardown ==
  proc = "exited" => (~launched /\ ~pidFile /\ ~sockFile)

(***************************************************************************)
(* Properties of the depth limit and of the elision rules, checked under   *)
(* SpecSnapshot.                                                           *)
(***************************************************************************)
\* The node is left out of the outline: it is not interactive in
\* interactive mode, or structural without a name in compact mode, or
\* generic or none without a name.
Elided(node, opts) ==
  LET role == ToLower(node.role)
  IN \/ opts.Interactive /\ role \notin InteractiveRoles
     \/ opts.Compact /\ role \in StructuralRoles /\ node.name = ""
     \/ role \in {"generic", "none"} /\ node.name = ""

RECURSIVE WrittenNodes(_, _)
RECURSIVE WrittenChildren(_, _)
\* The nodes of the subtree of node that are not left out, in the order of
\* the traversal, as pairs of lowered role and name.
WrittenNodes(node, opts) ==
  (IF Elided(node, opts) THEN <<>>
   ELSE << <<ToLower(node.role), node.name>> >>)
    \o WrittenChildren(node.children, opts)

WrittenChildren(children, opts) ==
  IF children = <<>> THEN <<>>
  ELSE WrittenNodes(Head(children), opts)
         \o WrittenChildren(Tail(children), opts)

\* C27: with maxDepth = N > 0 no node whose depth in the tree that was
\* given exceeds N is written to the outline, and with maxDepth = 0 every
\* node that is not elided is written.
C27_MaxDepthPrunesByInputDepth ==
  \A c \in SnapCalls :
    (snapIn[c].kind = "nodes" /\ snapIn[c].root # NilNode) =>
      LET N == snapIn[c].opts.MaxDepth
      IN /\ N > 0 => \A i \in 1..Len(outline[c]) : outline[c][i].level <= N
         /\ (N = 0 /\ snapPc[c] = "done") =>
              Len(outline[c]) =
                Len(WrittenNodes(snapIn[c].root, snapIn[c].opts))

(***************************************************************************)
(* SpecBuilders: one tree is given to BuildSnapshotFromNodes as it is and  *)
(* to processAriaTree as its outline, with the same options, one call      *)
(* after the other.                                                        *)
(***************************************************************************)
RECURSIVE Render(_)
RECURSIVE RenderChildren(_)
\* The outline of a tree as the lines processAriaLine matches: for every
\* node, in the order of the traversal, the line `- role "name"` indented
\* by its depth.
Render(node) ==
  <<AriaLine(TRUE, node.role, node.name)>> \o RenderChildren(node.children)

RenderChildren(children) ==
  IF children = <<>> THEN <<>>
  ELSE Render(Head(children)) \o RenderChildren(Tail(children))

BuilderTrees == {TreeForm, TreeList, TreeButtons}

\* Call 1 is BuildSnapshotFromNodes(t, o), call 2 is
\* processAriaTree(Render(t), o).
BuilderInputs(t, o) ==
  [c \in SnapCalls |->
     IF c = 1 THEN SnapshotInput("nodes", t, <<>>, o)
     ELSE SnapshotInput("aria", NilNode, Render(t), o)]

\* A call runs while no other call is between its resetRefs and its return.
BuilderCall(c) ==
  /\ \A d \in SnapCalls \ {c} : snapPc[d] # "build"
  /\ SnapshotCall(c)

InitBuilders ==
  /\ InitSnapVars
  /\ snapIn \in { BuilderInputs(t, o) : t \in BuilderTrees,
                                         o \in SnapshotOptions }
  /\ InitDaemonVars
  /\ InitBackendIdle
  /\ InitTabVars
  /\ InitSessionVars
  /\ pframe = FClose
  /\ pstage = "input"
  /\ pres = NoParse
  /\ pdisp = NoDispatch
  /\ pcmd = NoCmd

NextBuilders == \E c \in SnapCalls : BuilderCall(c)

SpecBuilders == InitBuilders /\ [][NextBuilders]_vars

\* C28: for the same tree, given once as an AXNode tree and once as its
\* outline, and the same options, BuildSnapshotFromNodes and
\* processAriaTree return the same ref table: the same ref ids with the
\* same role, name, nth and selector.
C28_BuildersAssignSameRefs ==
  (/\ snapPc[1] = "done" /\ snapPc[2] = "done"
   /\ snapIn[1].kind = "nodes" /\ snapIn[2].kind = "aria"
   /\ snapIn[2].lines = Render(snapIn[1].root)
   /\ snapIn[2].opts = snapIn[1].opts)
    => refs[1] = refs[2]

\* The lines of an ARIA text that processAriaLine returns as a line: all of
\* them, and in interactive mode those of an interactive role.
AriaWritten(lines, opts) ==
  SelectSeq(lines, LAMBDA l :
    ~opts.Interactive \/ (l.matches /\ ToLower(l.role) \in InteractiveRoles))

\* C29: a written line has a ref exactly when its role is interactive, or
\* is a content role and the name is not empty; every ref of the table is
\* that of a written line of its role and name, so that an elided node has
\* none; and the nodes
\* below an elided node are still visited: without a depth limit the
\* outline has every node that is not itself elided.
C29_RefIffInteractiveOrNamedContent ==
  \A c \in SnapCalls :
    /\ \A i \in 1..Len(outline[c]) :
         LET l == outline[c][i]
             role == ToLower(l.role)
         IN (l.tags # <<>>) <=>
              (\/ role \in InteractiveRoles
               \/ role \in ContentRoles /\ l.name # "")
    /\ \A r \in DOMAIN refs[c] :
         \E i \in 1..Len(outline[c]) :
           LET l == outline[c][i]
           IN /\ l.tags # <<>> /\ RefOf(l) = r
              /\ ToLower(l.role) = refs[c][r].role
              /\ l.name = refs[c][r].name
    /\ (/\ snapPc[c] = "done" /\ snapIn[c].kind = "nodes"
        /\ snapIn[c].root # NilNode /\ snapIn[c].opts.MaxDepth = 0) =>
         [i \in 1..Len(outline[c]) |->
            <<ToLower(outline[c][i].role), outline[c][i].name>>]
           = WrittenNodes(snapIn[c].root, snapIn[c].opts)
    /\ (snapPc[c] = "done" /\ snapIn[c].kind = "aria") =>
         [i \in 1..Len(outline[c]) |-> outline[c][i].role]
           = [i \in 1..Len(AriaWritten(snapIn[c].lines, snapIn[c].opts)) |->
                AriaWritten(snapIn[c].lines, snapIn[c].opts)[i].role]

\* BuildSnapshotFromNodes has returned an outline in which a cell without a
\* name has no ref, and a node below elided nodes has one.
C29_Witness ==
  /\ snapPc[1] = "done" /\ snapIn[1].kind = "nodes"
  /\ \E i \in 1..Len(outline[1]) :
       /\ outline[1][i].role = "cell" /\ outline[1][i].name = ""
       /\ outline[1][i].tags = <<>>
  /\ \E i \in 1..Len(outline[1]) :
       /\ outline[1][i].tags # <<>>
       /\ outline[1][i].level > outline[1][i].depth

====
